---- MODULE Spec2Model ----
(***************************************************************************)
(* CortexAI Phase2 pipeline: SchemaDetector (pipeline/schema.py),          *)
(* DataCleaner (pipeline/cleaner.py), EDAEngine (pipeline/eda.py),         *)
(* ModelTrainer (pipeline/trainer.py) and DatasetQualityAnalyzer           *)
(* (pipeline/quality_analyzer.py); DataLoader (pipeline/loader.py), the    *)
(* usage counters (pipeline/usage_manager.py) and the pages of the         *)
(* Streamlit application (app/pages) that run them on the session state.   *)
(*                                                                         *)
(* A DataFrame is a sequence of columns [name, dtype, cells]; a cell is    *)
(* [na, v].  Numeric values are held in quarters (v = 4 * value), so that  *)
(* halves, medians of two cells and whole numbers are all integers;        *)
(* a value is whole iff v % 4 = 0.  Text values are held as codes: code c  *)
(* in 1..NRows is an ordinary string, 100 + c is a string in date format,  *)
(* 0 is the string "nan" that astype(str) makes of a missing cell; codes   *)
(* sort as the strings do.                                                 *)
(***************************************************************************)
EXTENDS Integers, Sequences, FiniteSets, TLC

VARIABLES
    df,            \* the DataFrame handed to SchemaDetector and DataCleaner
    target_col,    \* the target column name chosen by the caller
    schema,        \* the schema returned by SchemaDetector.detect
    detect_state,  \* "new", "returned" or "ValueError"
    cleaner,       \* the DataCleaner object: [df, schema, target, report]
    clean_pc,      \* position of DataCleaner inside __init__ / clean()
    before,        \* cleaner.df as it was before the step last run
    cleaned_df,    \* the DataFrame returned by clean()
    tr,            \* the ModelTrainer object
    tr_df,         \* column names of the DataFrame the trainer refers to
    tr_schema,     \* the schema mapping the trainer refers to
    cv,            \* what cross_val_score yields per roster model on (X, y)
    files,         \* artifacts written by save_best_model / save_training_summary
    last,          \* the last trainer call and how it ended
    eda,           \* the EDAEngine object: its report and how its last call ended
    qa,            \* the DatasetQualityAnalyzer object
    reports,       \* the reports analyze() returned, as they were when returned
    loader,        \* the DataLoader object and the position of its load()
    session,       \* st.session_state: the pipeline entries the pages keep
    account,       \* st.session_state: is_admin, plan and the usage counters
    net,           \* the Groq API key in the environment and the calls made
    page_run,      \* the last page run, how it ended, and the runs so far
    pdf            \* the model-results table of the last final report built

vars == <<df, target_col, schema, detect_state, cleaner, clean_pc, before,
          cleaned_df, tr, tr_df, tr_schema, cv, files, last, eda, qa, reports,
          loader, session, account, net, page_run, pdf>>

appVars == <<loader, session, account, net, page_run, pdf>>

pipeVars == <<df, target_col, schema, detect_state, cleaner, clean_pc, before,
              cleaned_df>>

trainVars == <<tr, tr_df, tr_schema, cv, files, last>>

edaVars == <<eda>>

qualVars == <<qa, reports>>

----------------------------------------------------------------------------
(* Bounds *)

NRows == 11

MaxAnalyze == 3

(* Generic list helpers (Python lists are sequences). *)

Contains(list, x) == \E i \in DOMAIN list : list[i] = x

Filter(list, Keep(_)) == SelectSeq(list, Keep)

Range(f) == {f[i] : i \in DOMAIN f}

----------------------------------------------------------------------------
(* Cells and generated columns *)

NA == [na |-> TRUE, v |-> 0]

Val(x) == [na |-> FALSE, v |-> x]

\* numeric column: k leading missing cells, then d whole values in rotation
\* (1, 2, .., d), shifted by one half when frac, with a far value in the
\* last row (out = "high") or in the last two rows (out = "both")
NumCells(d, k, frac, out) ==
    [i \in 1..NRows |->
        IF i <= k THEN NA
        ELSE IF out \in {"high", "both"} /\ i = NRows THEN Val(4000)
        ELSE IF out = "both" /\ i = NRows - 1 THEN Val(-4000)
        ELSE Val(4 * (((i - 1) % d) + 1) + (IF frac THEN 2 ELSE 0))]

\* text column: k leading missing cells, then d strings in rotation,
\* all in date format when date
TxtCells(d, k, date) ==
    [i \in 1..NRows |->
        IF i <= k THEN NA
        ELSE Val((((i - 1) % d) + 1) + (IF date THEN 100 ELSE 0))]

NumDtype(cells) ==
    IF \E i \in DOMAIN cells : cells[i].na \/ cells[i].v % 4 # 0
    THEN "float64" ELSE "int64"

NumericShapes ==
    { NumCells(2, 0, FALSE, "none"),
      NumCells(2, 1, FALSE, "none"),
      NumCells(1, 0, FALSE, "none"),
      NumCells(NRows, 0, FALSE, "none"),
      NumCells(NRows, 1, TRUE, "high"),
      NumCells(1, 0, TRUE, "high"),
      NumCells(2, 0, TRUE, "both"),
      NumCells(1, NRows, FALSE, "none") }

TextShapes ==
    { TxtCells(2, 0, FALSE),
      TxtCells(2, 1, FALSE),
      TxtCells(1, 0, FALSE),
      TxtCells(2, NRows \div 2, FALSE),
      TxtCells(NRows, 0, FALSE),
      TxtCells(2, 1, TRUE),
      TxtCells(NRows, 0, TRUE),
      TxtCells(1, NRows, FALSE) }

NumericColumns(names, shapes) ==
    { [name |-> n, dtype |-> NumDtype(c), cells |-> c] : n \in names, c \in shapes }

TextColumns(names, shapes) ==
    { [name |-> n, dtype |-> "object", cells |-> c] : n \in names, c \in shapes }

\* a dataset has three columns: one of any shape, named like an identifier
\* or not; a second feature; and a column fit to be the target, named "y" or
\* "Paid" (a name the pattern id$ matches)
FirstColumns ==
    NumericColumns({"user_id", "age"}, NumericShapes)
    \cup TextColumns({"user_id", "age"}, TextShapes)

SecondColumns ==
    NumericColumns({"fare"}, { NumCells(1, 0, TRUE, "high"),
                              NumCells(2, 1, FALSE, "none") })
    \cup TextColumns({"fare"}, { TxtCells(NRows, 0, FALSE),
                                TxtCells(2, 1, FALSE) })

ThirdColumns ==
    NumericColumns({"y", "Paid"}, { NumCells(2, 0, FALSE, "none"),
                                   NumCells(NRows, 1, TRUE, "high") })
    \cup TextColumns({"y", "Paid"}, { TxtCells(NRows, 0, TRUE),
                                     TxtCells(1, 0, FALSE) })

\* a name that is no column of any dataset
AbsentName == "label"

Datasets == { <<a, b, c>> : a \in FirstColumns, b \in SecondColumns,
                            c \in ThirdColumns }

----------------------------------------------------------------------------
(* DataFrame accessors *)

Columns(d) == [i \in DOMAIN d |-> d[i].name]

HasColumn(d, c) == \E i \in DOMAIN d : d[i].name = c

Col(d, c) == d[CHOOSE i \in DOMAIN d : d[i].name = c]

Values(cells) == {cells[i].v : i \in {j \in DOMAIN cells : ~cells[j].na}}

NUnique(cells) == Cardinality(Values(cells))

NMissing(cells) == Cardinality({i \in DOMAIN cells : cells[i].na})

----------------------------------------------------------------------------
(* SchemaDetector *)

OrdinalMaxUnique == 10

HighCardMinUnique == 10

ClassificationMaxUnique == 10

\* the characters of a column name (TLC cannot index a string)
NameChars(n) ==
    CASE n = "user_id" -> <<"u", "s", "e", "r", "_", "i", "d">>
      [] n = "age"     -> <<"a", "g", "e">>
      [] n = "fare"    -> <<"f", "a", "r", "e">>
      [] n = "y"       -> <<"y">>
      [] n = "Paid"    -> <<"P", "a", "i", "d">>
      [] n = "label"   -> <<"l", "a", "b", "e", "l">>

UpperCase == <<"A", "B", "C", "D", "E", "F", "G", "H", "I", "J", "K", "L", "M",
               "N", "O", "P", "Q", "R", "S", "T", "U", "V", "W", "X", "Y", "Z">>

LowerCase == <<"a", "b", "c", "d", "e", "f", "g", "h", "i", "j", "k", "l", "m",
               "n", "o", "p", "q", "r", "s", "t", "u", "v", "w", "x", "y", "z">>

\* str.lower()
Lower(chars) ==
    [i \in DOMAIN chars |->
        IF \E j \in DOMAIN UpperCase : UpperCase[j] = chars[i]
        THEN LowerCase[CHOOSE j \in DOMAIN UpperCase : UpperCase[j] = chars[i]]
        ELSE chars[i]]

EndsWith(chars, suffix) ==
    /\ Len(chars) >= Len(suffix)
    /\ SubSeq(chars, Len(chars) - Len(suffix) + 1, Len(chars)) = suffix

\* id_patterns: ^id$  _id$  id$  ^uuid$  ^index$  ^s\.?no$
MatchesIdPattern(lower) ==
    \/ lower = <<"i", "d">>
    \/ EndsWith(lower, <<"_", "i", "d">>)
    \/ EndsWith(lower, <<"i", "d">>)
    \/ lower = <<"u", "u", "i", "d">>
    \/ lower = <<"i", "n", "d", "e", "x">>
    \/ lower \in { <<"s", "n", "o">>, <<"s", ".", "n", "o">> }

IsNumericDtype(c) == c.dtype \in {"int64", "float64"}

ColumnNamesWhere(d, Test(_)) ==
    LET picked == SelectSeq(d, Test) IN [i \in DOMAIN picked |-> picked[i].name]

DetectNumericColumns(d) == ColumnNamesWhere(d, IsNumericDtype)

DetectCategoricalColumns(d) ==
    ColumnNamesWhere(d, LAMBDA c : c.dtype = "object")

\* a string parses as a date iff it is in date format
ParsesAsDate(v) == v > 100

\* pd.to_datetime(errors="raise") raises unless every present string parses;
\* the column is kept when more than half of its cells parsed
DetectDatetimeColumns(d) ==
    ColumnNamesWhere(d, LAMBDA c :
        /\ c.dtype = "object"
        /\ \A v \in Values(c.cells) : ParsesAsDate(v)
        /\ 2 * (Len(c.cells) - NMissing(c.cells)) > Len(c.cells))

\* variant: a column whose distinct-value ratio exceeds 0.98 is an identifier
\* as well
DetectIdColumnsByRatio(d) ==
    ColumnNamesWhere(d, LAMBDA c :
        \/ MatchesIdPattern(Lower(NameChars(c.name)))
        \/ 100 * NUnique(c.cells) > 98 * Len(c.cells))

DetectIdColumns(d) ==
    ColumnNamesWhere(d, LAMBDA c : MatchesIdPattern(Lower(NameChars(c.name))))

\* nunique / n_rows > max(0.3, 10 / n_rows)
DetectHighCardinalityColumns(d) ==
    ColumnNamesWhere(d, LAMBDA c :
        /\ c.dtype = "object"
        /\ 10 * NUnique(c.cells) > 3 * Len(c.cells)
        /\ NUnique(c.cells) > HighCardMinUnique)

DetectOrdinalColumns(d, numeric_cols, target) ==
    Filter(numeric_cols, LAMBDA c :
        /\ c # target
        /\ Values(Col(d, c).cells) # {}
        /\ NUnique(Col(d, c).cells) <= OrdinalMaxUnique
        /\ \A v \in Values(Col(d, c).cells) : v % 4 = 0)

\* isna().mean() > 0.4
\* variant: no categorical column is set aside for its missing cells
HighMissingNever(d, c) == FALSE

HighMissing(d, c) == 10 * NMissing(Col(d, c).cells) > 4 * Len(Col(d, c).cells)

Warn(text, col) == [msg |-> text, col |-> col]

TargetWarnings(d, target) ==
    LET c == Col(d, target)
        nunique == NUnique(c.cells)
    IN  (IF nunique <= 1
         THEN <<Warn("Target column is constant or near-constant.", target)>>
         ELSE <<>>)
        \o
        (IF Contains(DetectIdColumns(d), target)
         THEN <<Warn("Target column appears to be an ID column.", target)>>
         ELSE <<>>)
        \o
        (IF IsNumericDtype(c) /\ nunique <= ClassificationMaxUnique
         THEN <<Warn("Target treated as classification due to low cardinality.",
                     target)>>
         ELSE <<>>)

TaskType(d, target) ==
    IF /\ IsNumericDtype(Col(d, target))
       /\ NUnique(Col(d, target).cells) > ClassificationMaxUnique
    THEN "regression" ELSE "classification"

\* the high-missing warnings of _dataset_warnings; its skew warnings need
\* real arithmetic on third moments and are not part of this model
DatasetWarnings(high_missing_cat) ==
    [i \in DOMAIN high_missing_cat |->
        Warn("High missing values", high_missing_cat[i])]

\* _validate_target raises ValueError when the target is no column
\* variant: a target flagged as identifier is rejected as well
ValidateTargetRaisesOnId(d, target) ==
    ~HasColumn(d, target) \/ MatchesIdPattern(Lower(NameChars(target)))

ValidateTargetRaises(d, target) == ~HasColumn(d, target)

Ordinal(d, target) == DetectOrdinalColumns(d, DetectNumericColumns(d), target)

NumericContinuous(d, target) ==
    Filter(DetectNumericColumns(d), LAMBDA c :
        /\ ~Contains(Ordinal(d, target), c)
        /\ c # target
        /\ ~Contains(DetectIdColumns(d), c))

CategoricalKept(d) ==
    Filter(DetectCategoricalColumns(d), LAMBDA c :
        /\ ~Contains(DetectHighCardinalityColumns(d), c)
        /\ ~Contains(DetectIdColumns(d), c))

\* the schema detect(target_col) returns when _validate_target does not raise
DetectSchema(d, target) ==
    [ target      |-> target,
      task_type   |-> TaskType(d, target),
      numeric     |-> NumericContinuous(d, target),
      ordinal     |-> Ordinal(d, target),
      categorical |-> Filter(CategoricalKept(d), LAMBDA c : ~HighMissing(d, c)),
      high_missing_categorical |->
                      Filter(CategoricalKept(d), LAMBDA c : HighMissing(d, c)),
      high_cardinality_columns |-> DetectHighCardinalityColumns(d),
      id_columns  |-> DetectIdColumns(d),
      datetime    |-> DetectDatetimeColumns(d),
      warnings    |-> TargetWarnings(d, target)
                      \o DatasetWarnings(
                           Filter(CategoricalKept(d), LAMBDA c : HighMissing(d, c))) ]

\* the value of `schema` while detect has returned nothing
NoSchema ==
    [ target |-> AbsentName, task_type |-> "none",
      numeric |-> <<>>, ordinal |-> <<>>, categorical |-> <<>>,
      high_missing_categorical |-> <<>>, high_cardinality_columns |-> <<>>,
      id_columns |-> <<>>, datetime |-> <<>>, warnings |-> <<>> ]

RoleGroups(s) ==
    << s.numeric, s.ordinal, s.categorical, s.datetime, s.id_columns,
       s.high_cardinality_columns, s.high_missing_categorical >>

----------------------------------------------------------------------------
(* DataCleaner *)

CleanerHighCardinality == 20

Present(cells) == {i \in DOMAIN cells : ~cells[i].na}

\* the k-th smallest present value (k = 1 is the minimum)
Kth(cells, k) ==
    CHOOSE x \in Values(cells) :
        /\ Cardinality({i \in Present(cells) : cells[i].v < x}) < k
        /\ Cardinality({i \in Present(cells) : cells[i].v <= x}) >= k

\* 4 * Series.quantile(num / 4), linear interpolation between the two
\* neighbouring order statistics, missing cells skipped; needs a present value
Quantile4(cells, num) ==
    LET n  == Cardinality(Present(cells))
        h  == (n - 1) * num
        lo == h \div 4
        r  == h % 4
    IN  IF r = 0 THEN 4 * Kth(cells, lo + 1)
        ELSE 4 * Kth(cells, lo + 1)
             + r * (Kth(cells, lo + 2) - Kth(cells, lo + 1))

\* Series.median(): the cell NA when no value is present
Median(cells) ==
    IF Values(cells) = {} THEN NA ELSE Val(Quantile4(cells, 2) \div 4)

\* Series.mode().iloc[0]: the most frequent value, the smallest on ties
Mode(cells) ==
    LET count(x) == Cardinality({i \in Present(cells) : cells[i].v = x})
        top == {x \in Values(cells) : \A z \in Values(cells) : count(z) <= count(x)}
    IN  CHOOSE x \in top : \A z \in top : x <= z

\* Series.fillna(fill): a fill of NaN changes nothing
FillNa(cells, fill) ==
    [i \in DOMAIN cells |-> IF cells[i].na THEN fill ELSE cells[i]]

\* the columns a cleaning loop visits: listed, not the target, still present
\* variant: the target is not skipped
VisitedWithTarget(cd, list, target) ==
    Filter(list, LAMBDA c : HasColumn(cd, c))

Visited(cd, list, target) ==
    Filter(list, LAMBDA c : c # target /\ HasColumn(cd, c))

EmptyReport ==
    [ removed_id_columns |-> <<>>, missing_values |-> {}, type_casting |-> {},
      outliers |-> {}, high_cardinality |-> {} ]

\* variant: self.df = df, the cleaner works on the caller's frame
KeepsInput(d) == FALSE

\* self.df = df.copy(): the cleaner works on a frame of its own (TRUE), not
\* on the caller's (FALSE)
CopiesInput(d) == TRUE

\* the value of `cleaner` while no DataCleaner is constructed
NoCleaner ==
    [ df |-> <<>>, own_df |-> TRUE, schema |-> NoSchema, target |-> AbsentName,
      report |-> EmptyReport ]

\* _drop_id_columns: nothing at all when the schema has no id column
IdColumnsToDrop(s, target) == Filter(s.id_columns, LAMBDA c : c # target)

DropIdColumns(cd, s, target) ==
    IF s.id_columns = <<>> THEN cd
    ELSE SelectSeq(cd, LAMBDA c : ~Contains(IdColumnsToDrop(s, target), c.name))

\* _handle_missing_values, the numeric loop
FillNumeric(cd, s, target) ==
    [i \in DOMAIN cd |->
        IF /\ Contains(Visited(cd, s.numeric, target), cd[i].name)
           /\ NMissing(cd[i].cells) > 0
        THEN [cd[i] EXCEPT !.cells = FillNa(@, Median(cd[i].cells))]
        ELSE cd[i]]

\* mode() of a column with no value is empty and .iloc[0] raises IndexError
ModeRaises(cd, c) ==
    NMissing(Col(cd, c).cells) > 0 /\ Values(Col(cd, c).cells) = {}

\* the position in the categorical loop at which it raises (0: it does not)
FirstModeRaise(cd, s, target) ==
    LET cats == Visited(cd, s.categorical, target)
        bad  == {i \in DOMAIN cats : ModeRaises(cd, cats[i])}
    IN  IF bad = {} THEN 0 ELSE CHOOSE i \in bad : \A j \in bad : i <= j

\* _handle_missing_values, the categorical loop up to where it raises
FillCategorical(cd, s, target) ==
    LET cats == Visited(cd, s.categorical, target)
        stop == FirstModeRaise(cd, s, target)
        done == IF stop = 0 THEN cats ELSE SubSeq(cats, 1, stop - 1)
    IN  [i \in DOMAIN cd |->
            IF Contains(done, cd[i].name) /\ NMissing(cd[i].cells) > 0
            THEN [cd[i] EXCEPT !.cells = FillNa(@, Val(Mode(cd[i].cells)))]
            ELSE cd[i]]

HandleMissingValues(cd, s, target) ==
    FillCategorical(FillNumeric(cd, s, target), s, target)

MissingInfo(cd, s, target) ==
    { [col |-> c.name, method |-> "median", value |-> Median(c.cells)] :
        c \in {x \in Range(cd) : /\ Contains(Visited(cd, s.numeric, target), x.name)
                                 /\ NMissing(x.cells) > 0} }
    \cup
    { [col |-> c.name, method |-> "mode", value |-> Val(Mode(c.cells))] :
        c \in {x \in Range(cd) : /\ Contains(Visited(cd, s.categorical, target), x.name)
                                 /\ NMissing(x.cells) > 0
                                 /\ Values(x.cells) # {}} }

\* pd.to_numeric(errors="coerce"): numbers stay, strings that are no number
\* (every string of this model) become missing
ToNumeric(c) ==
    IF IsNumericDtype(c) THEN c
    ELSE [c EXCEPT !.dtype = "float64", !.cells = [i \in DOMAIN c.cells |-> NA]]

\* astype(str): a missing cell becomes the string "nan" (code 0)
AsTypeStr(c) ==
    [c EXCEPT !.dtype = "object",
              !.cells = [i \in DOMAIN c.cells |->
                            IF c.cells[i].na THEN Val(0) ELSE c.cells[i]]]

\* pd.to_datetime(errors="coerce"): a date string becomes its day number,
\* anything else (also "nan") becomes missing
ToDatetime(c) ==
    [c EXCEPT !.dtype = "datetime64",
              !.cells = [i \in DOMAIN c.cells |->
                            IF ~c.cells[i].na /\ ParsesAsDate(c.cells[i].v)
                            THEN Val(c.cells[i].v - 100) ELSE NA]]

CastWhere(cd, list, target, Cast(_)) ==
    [i \in DOMAIN cd |->
        IF Contains(Visited(cd, list, target), cd[i].name)
        THEN Cast(cd[i]) ELSE cd[i]]

\* _fix_column_types: the numeric, the categorical, then the datetime loop
FixColumnTypes(cd, s, target) ==
    CastWhere(CastWhere(CastWhere(cd, s.numeric, target, ToNumeric),
                        s.categorical, target, AsTypeStr),
              s.datetime, target, ToDatetime)

TypeChanges(cd, s, target) ==
    { [col |-> c,
       cast |-> IF Contains(s.datetime, c) THEN "to_datetime"
                ELSE IF Contains(s.categorical, c) THEN "to_string"
                ELSE "to_numeric"] :
        c \in Range(Visited(cd, s.numeric, target))
              \cup Range(Visited(cd, s.categorical, target))
              \cup Range(Visited(cd, s.datetime, target)) }

\* quartiles of a column with a present value, times 4 and times 8
Q1x4(cells) == Quantile4(cells, 1)

Q3x4(cells) == Quantile4(cells, 3)

IQRx4(cells) == Q3x4(cells) - Q1x4(cells)

\* 8 * (Q1 - 1.5 * IQR) and 8 * (Q3 + 1.5 * IQR)
Lower8(cells) == 2 * Q1x4(cells) - 3 * IQRx4(cells)

Upper8(cells) == 2 * Q3x4(cells) + 3 * IQRx4(cells)

IsOutlier(cells, x) == 8 * x < Lower8(cells) \/ 8 * x > Upper8(cells)

OutlierRows(cells) ==
    {i \in Present(cells) : IsOutlier(cells, cells[i].v)}

\* a column with no present value has NaN quartiles: IQR == 0 is False and
\* no comparison with NaN selects a row
CapsOutliers(cells) ==
    /\ Values(cells) # {}
    /\ IQRx4(cells) # 0
    /\ OutlierRows(cells) # {}

\* the two assignments: rows below `lower` take the median, then the rows of
\* the updated column above `upper` take the median
\* variant: only values below the lower fence are replaced
CapColumnLowOnly(cells) ==
    LET median_val == Median(cells)
    IN  [i \in DOMAIN cells |->
            IF ~cells[i].na /\ 8 * cells[i].v < Lower8(cells)
            THEN median_val ELSE cells[i]]

CapColumn(cells) ==
    LET median_val == Median(cells)
        low  == [i \in DOMAIN cells |->
                    IF ~cells[i].na /\ 8 * cells[i].v < Lower8(cells)
                    THEN median_val ELSE cells[i]]
    IN  [i \in DOMAIN cells |->
            IF ~low[i].na /\ 8 * low[i].v > Upper8(cells)
            THEN median_val ELSE low[i]]

FixOutliers(cd, s, target) ==
    [i \in DOMAIN cd |->
        IF /\ Contains(Visited(cd, s.numeric, target), cd[i].name)
           /\ CapsOutliers(cd[i].cells)
        THEN [cd[i] EXCEPT !.cells = CapColumn(cd[i].cells),
                           !.dtype = IF IsNumericDtype(cd[i])
                                     THEN NumDtype(CapColumn(cd[i].cells))
                                     ELSE @]
        ELSE cd[i]]

OutlierInfo(cd, s, target) ==
    { [col |-> c.name, count |-> Cardinality(OutlierRows(c.cells)),
       median |-> Median(c.cells)] :
        c \in {x \in Range(cd) : /\ Contains(Visited(cd, s.numeric, target), x.name)
                                 /\ CapsOutliers(x.cells)} }

HighCardinalityInfo(cd, s, target) ==
    { [col |-> c.name, unique_count |-> NUnique(c.cells)] :
        c \in {x \in Range(cd) :
                 /\ Contains(Visited(cd, s.categorical, target), x.name)
                 /\ NUnique(x.cells) > CleanerHighCardinality} }

----------------------------------------------------------------------------
(* EDAEngine and DatasetQualityAnalyzer before they are constructed *)

\* report["target_analysis"]: the task type and, for classification, the
\* class counts of value_counts(), most frequent first
NoTargetAnalysis ==
    [task_type |-> "none", has_distribution |-> FALSE, class_distribution |-> <<>>]

\* EDAEngine.report = {}: `keys` are the keys set so far
EmptyEdaReport ==
    [ keys |-> {}, target_analysis |-> NoTargetAnalysis,
      correlation_matrix |-> <<>>, high_correlation_pairs |-> {} ]

NoEda == [state |-> "none", report |-> EmptyEdaReport]

NoAnalyzer ==
    [ constructed |-> FALSE, schema |-> NoSchema, eda |-> EmptyEdaReport,
      training |-> <<>>, score |-> 50,
      risks |-> <<>>, strengths |-> <<>>, recommendations |-> <<>> ]

StagesIdle == eda = NoEda /\ qa = NoAnalyzer /\ reports = <<>>

----------------------------------------------------------------------------
(* DataLoader and the application session before anything has run *)

\* a file on disk: whether the path exists, ends in .csv (any case), is over
\* 200 MB; whether its bytes decode as UTF-8 (as Latin-1 every byte string
\* decodes); whether pandas parses it; whether it has more rows than any
\* plan allows; and the frame read_csv makes of it
NoFrame == <<>>

NoFile ==
    [ exists |-> FALSE, csv |-> FALSE, too_large |-> FALSE, utf8 |-> FALSE,
      parses |-> FALSE, many_rows |-> FALSE, frame |-> NoFrame ]

NoMeta == [rows |-> 0, columns |-> 0, encoding_used |-> "none"]

NoLoader ==
    [ file |-> NoFile, pc |-> "none", opened |-> FALSE, error |-> "none",
      df |-> NoFrame, meta |-> NoMeta ]

\* what analyze() returns, before it has
NoQuality ==
    [ learnability_score |-> 0, verdict |-> "none", strengths |-> <<>>,
      risks |-> <<>>, recommendations |-> <<>> ]

\* what save_training_summary() returns, before it has
NoSummary == [best_model |-> "None", metric |-> "None", best_score |-> "None"]

\* st.session_state without a pipeline entry: `keys` are the keys present
EmptySession ==
    [ keys |-> {}, raw_df |-> NoFrame, df |-> NoFrame, meta |-> NoMeta,
      schema |-> NoSchema, cleaned_df |-> NoFrame,
      cleaning_report |-> EmptyReport, eda_report |-> EmptyEdaReport,
      training_results |-> <<>>, dataset_quality |-> NoQuality,
      training_summary |-> NoSummary ]

NoUsage == [uploads |-> 0, pipeline_runs |-> 0, llm_calls |-> 0]

NoRun == [page |-> "none", outcome |-> "none", n |-> 0]

NoPdf == [built |-> FALSE, best_model |-> "None", best_score |-> "None"]

AppIdle ==
    /\ loader = NoLoader
    /\ session = EmptySession
    /\ account = [is_admin |-> FALSE, plan |-> "free", usage |-> NoUsage]
    /\ net = [key |-> FALSE, calls |-> 0]
    /\ page_run = NoRun
    /\ pdf = NoPdf

----------------------------------------------------------------------------
(* ModelTrainer *)

MaxScore == 1

MaxCalls == 4

BestScoreInit == -1000000000

\* what cross_val_score(model, X, y).mean() can be: the call raises (every
\* fold failed to fit), the mean is NaN (a fold failed and scored
\* error_score = nan), or the mean is a score.  It is a function of (X, y):
\* `cv` keeps what it yielded per model since the last prepare_data
Raise == [kind |-> "raise", v |-> 0]

NaN == [kind |-> "nan", v |-> 0]

Score(x) == [kind |-> "score", v |-> x]

Unknown == [kind |-> "unknown", v |-> 0]

Absent == [kind |-> "absent", v |-> 0]

Outcomes == {Raise, NaN} \cup {Score(x) : x \in 0..MaxScore}

ClassificationRoster ==
    <<"Baseline", "LogisticRegression", "SVC", "KNN", "RandomForestClassifier">>

RegressionRoster ==
    <<"Baseline", "LinearRegression", "RandomForestRegressor">>

ModelNames == Range(ClassificationRoster) \cup Range(RegressionRoster)

Roster(task_type) ==
    IF task_type = "classification" THEN ClassificationRoster ELSE RegressionRoster

\* the (DataFrame, schema) pairs a trainer is constructed with: the columns of
\* the frame, the number of classes of its target, and the schema
TrainerFrame(cols, classes) == [columns |-> cols, target_classes |-> classes]

TrainerSchema(task, numeric, categorical, ids) ==
    [NoSchema EXCEPT !.target = "y", !.task_type = task, !.numeric = numeric,
                     !.categorical = categorical, !.id_columns = ids]

\* (training of a classification roster is followed in SpecStages, where the
\* calls come in the order of the training page)
TrainerInputs ==
    { <<TrainerFrame(<<"user_id", "age", "rank", "city", "y">>, 11),
        [TrainerSchema("regression", <<"age", "user_id">>,
                       <<"city", "y", "zip">>, <<"user_id">>)
            EXCEPT !.ordinal = <<"rank">>]>>,
      <<TrainerFrame(<<"user_id", "y">>, 2),
        TrainerSchema("classification", <<"user_id">>, <<"city">>, <<"user_id">>)>> }

\* ModelTrainer.__init__
NewTrainer ==
    [ prepared |-> FALSE, X |-> <<>>, label_encoder |-> FALSE,
      results |-> [n \in ModelNames |-> Absent],
      best_model |-> "None", best_model_name |-> "None",
      best_score |-> BestScoreInit, metric_used |-> "None", fitted |-> FALSE ]

NoFiles ==
    [ model   |-> [written |-> FALSE, model |-> "None"],
      summary |-> [written |-> FALSE, best_model |-> "None", best_score |-> 0] ]

TrainInit ==
    /\ \E in \in TrainerInputs : tr_df = in[1] /\ tr_schema = in[2]
    /\ tr = NewTrainer
    /\ cv = [n \in ModelNames |-> Unknown]
    /\ files = NoFiles
    /\ last = [op |-> "__init__", outcome |-> "returned", n |-> 0]
    /\ df = <<>>
    /\ target_col = AbsentName
    /\ schema = NoSchema
    /\ detect_state = "new"
    /\ cleaner = NoCleaner
    /\ clean_pc = "none"
    /\ before = <<>>
    /\ cleaned_df = <<>>
    /\ StagesIdle
    /\ AppIdle

\* the caller makes at most MaxCalls calls
MayCall == last.n < MaxCalls

Called(op, outcome) ==
    last' = [op |-> op, outcome |-> outcome, n |-> last.n + 1]

\* variant: identifier columns are not left out
FeatureColsWithIds(frame, s) ==
    Filter(s.numeric \o s.ordinal \o s.categorical, LAMBDA c :
        /\ Contains(frame.columns, c)
        /\ c # s.target)

FeatureCols(frame, s) ==
    Filter(s.numeric \o s.ordinal \o s.categorical, LAMBDA c :
        /\ Contains(frame.columns, c)
        /\ ~Contains(s.id_columns, c)
        /\ c # s.target)

\* prepare_data(): X and y are copies of the frame's columns as they are now,
\* so what cross_val_score yields on them is open again
PrepareData ==
    /\ MayCall
    /\ IF FeatureCols(tr_df, tr_schema) = <<>>
       THEN /\ Called("prepare_data", "ValueError")
            /\ UNCHANGED <<tr, cv>>
       ELSE /\ Called("prepare_data", "returned")
            /\ tr' = [tr EXCEPT !.prepared = TRUE,
                                !.X = FeatureCols(tr_df, tr_schema),
                                !.label_encoder =
                                    IF tr_schema.task_type = "classification"
                                    THEN TRUE ELSE @]
            /\ cv' = [n \in ModelNames |-> Unknown]
    /\ UNCHANGED <<tr_df, tr_schema, files>>
    /\ UNCHANGED <<pipeVars, edaVars, qualVars, appVars>>

Metric(frame, s) ==
    IF s.task_type = "classification"
    THEN IF frame.target_classes > 2 THEN "f1_macro" ELSE "f1_weighted"
    ELSE "r2"

\* mean_score > self.best_score: False for a NaN mean
Beats(mean, best_score) == mean.kind = "score" /\ mean.v > best_score

\* one pass of the train loop for `name`, whose cross_val_score returned
StepTrainLoop(t, name, mean) ==
    [t EXCEPT !.results = [@ EXCEPT ![name] = mean],
              !.best_score = IF Beats(mean, t.best_score) THEN mean.v ELSE @,
              !.best_model = IF Beats(mean, t.best_score) THEN name ELSE @,
              !.best_model_name = IF Beats(mean, t.best_score) THEN name ELSE @]

\* the train loop over `names`: an exception of cross_val_score leaves it
RECURSIVE TrainLoop(_, _, _)
TrainLoop(names, o, t) ==
    IF names = <<>> THEN [tr |-> t, raised |-> FALSE, reached |-> {}]
    ELSE IF o[Head(names)] = Raise
         THEN [tr |-> t, raised |-> TRUE, reached |-> {Head(names)}]
         ELSE LET rest == TrainLoop(Tail(names), o,
                                    StepTrainLoop(t, Head(names), o[Head(names)]))
              IN  [rest EXCEPT !.reached = @ \cup {Head(names)}]

\* train_all_models(): self.X.columns raises AttributeError while X is None
TrainAllModels ==
    /\ MayCall
    /\ IF ~tr.prepared
       THEN /\ Called("train_all_models", "AttributeError")
            /\ UNCHANGED <<tr, cv>>
       ELSE \E fresh \in [{n \in Range(Roster(tr_schema.task_type)) :
                                 cv[n] = Unknown} -> Outcomes] :
              LET o   == [n \in Range(Roster(tr_schema.task_type)) |->
                            IF cv[n] = Unknown THEN fresh[n] ELSE cv[n]]
                  run == TrainLoop(Roster(tr_schema.task_type), o,
                                   [tr EXCEPT !.metric_used =
                                                  Metric(tr_df, tr_schema)])
              IN  /\ tr' = run.tr
                  /\ cv' = [n \in ModelNames |->
                              IF n \in run.reached THEN o[n] ELSE cv[n]]
                  /\ Called("train_all_models",
                            IF run.raised THEN "Exception" ELSE "returned")
    /\ UNCHANGED <<tr_df, tr_schema, files>>
    /\ UNCHANGED <<pipeVars, edaVars, qualVars, appVars>>

\* retrain_best_model(): None.fit raises AttributeError
RetrainBestModel ==
    /\ MayCall
    /\ IF tr.best_model = "None"
       THEN Called("retrain_best_model", "AttributeError") /\ UNCHANGED tr
       ELSE Called("retrain_best_model", "returned")
            /\ tr' = [tr EXCEPT !.fitted = TRUE]
    /\ UNCHANGED <<tr_df, tr_schema, cv, files>>
    /\ UNCHANGED <<pipeVars, edaVars, qualVars, appVars>>

\* save_best_model(): list(self.X.columns) raises AttributeError while X is
\* None, before joblib.dump is called
SaveBestModel ==
    /\ MayCall
    /\ IF ~tr.prepared
       THEN Called("save_best_model", "AttributeError") /\ UNCHANGED files
       ELSE Called("save_best_model", "returned")
            /\ files' = [files EXCEPT !.model =
                            [written |-> TRUE, model |-> tr.best_model]]
    /\ UNCHANGED <<tr, tr_df, tr_schema, cv>>
    /\ UNCHANGED <<pipeVars, edaVars, qualVars, appVars>>

\* save_training_summary(): of the summary written, best_model and best_score
\* are kept here
SaveTrainingSummary ==
    /\ MayCall
    /\ Called("save_training_summary", "returned")
    /\ files' = [files EXCEPT !.summary =
                    [written |-> TRUE, best_model |-> tr.best_model_name,
                     best_score |-> tr.best_score]]
    /\ UNCHANGED <<tr, tr_df, tr_schema, cv>>
    /\ UNCHANGED <<pipeVars, edaVars, qualVars, appVars>>

TrainNext ==
    \/ PrepareData
    \/ TrainAllModels
    \/ RetrainBestModel
    \/ SaveBestModel
    \/ SaveTrainingSummary

SpecTrainer == TrainInit /\ [][TrainNext]_vars

----------------------------------------------------------------------------
(* DatasetQualityAnalyzer *)

\* training_results is a dict: a sequence of [name, mean] in insertion
\* order, mean being NaN or a score held in hundredths.  The numbers the
\* messages format (ratio, gain) are left out of the message texts.
Entry(name, mean) == [name |-> name, mean |-> mean]

HasModel(training, name) == \E i \in DOMAIN training : training[i].name = name

MeanOf(training, name) ==
    training[CHOOSE i \in DOMAIN training : training[i].name = name].mean

\* a > b on floats: False when either is NaN
Greater(a, b) == a.kind = "score" /\ b.kind = "score" /\ a.v > b.v

\* max(...) over the values in order: a later value replaces the running
\* maximum only if it compares greater
RECURSIVE PyMax(_, _)
PyMax(m, rest) ==
    IF rest = <<>> THEN m
    ELSE PyMax(IF Greater(Head(rest).mean, m) THEN Head(rest).mean ELSE m,
               Tail(rest))

\* best_score - baseline_score
Gain(best, baseline) ==
    IF best.kind = "score" /\ baseline.kind = "score"
    THEN Score(best.v - baseline.v) ELSE NaN

\* x >= h on floats, h in hundredths
AtLeast(x, h) == x.kind = "score" /\ x.v >= h

SeqMax(counts) == CHOOSE x \in Range(counts) : \A y \in Range(counts) : y <= x

SeqMin(counts) == CHOOSE x \in Range(counts) : \A y \in Range(counts) : x <= y

\* DatasetQualityAnalyzer.__init__
NewAnalyzer(s, e, t) ==
    [ constructed |-> TRUE, schema |-> s, eda |-> e, training |-> t,
      score |-> 50, risks |-> <<>>, strengths |-> <<>>,
      recommendations |-> <<>> ]

\* variant: a ratio of exactly 10 is penalised too
CheckTargetImbalanceInclusive(a) ==
    LET target_info == a.eda.target_analysis
        counts == target_info.class_distribution
    IN  IF target_info.task_type # "classification" \/ counts = <<>>
        THEN a
        ELSE IF SeqMax(counts) >=
                  10 * (IF SeqMin(counts) > 1 THEN SeqMin(counts) ELSE 1)
        THEN [a EXCEPT
                !.score = @ - 15,
                !.risks = Append(@, "Severe class imbalance detected."),
                !.recommendations = Append(@,
                    "Consider resampling techniques or class-weighted models.")]
        ELSE a

CheckTargetImbalance(a) ==
    LET target_info == a.eda.target_analysis
        counts == target_info.class_distribution
    IN  IF target_info.task_type # "classification" \/ counts = <<>>
        THEN a
        ELSE IF SeqMax(counts) >
                  10 * (IF SeqMin(counts) > 1 THEN SeqMin(counts) ELSE 1)
        THEN [a EXCEPT
                !.score = @ - 15,
                !.risks = Append(@, "Severe class imbalance detected."),
                !.recommendations = Append(@,
                    "Consider resampling techniques or class-weighted models.")]
        ELSE a

CheckModelImprovement(a) ==
    IF ~HasModel(a.training, "Baseline") THEN a
    ELSE LET baseline_score == MeanOf(a.training, "Baseline")
             best_score == PyMax(Head(a.training).mean, Tail(a.training))
             absolute_gain == Gain(best_score, baseline_score)
         IN  IF AtLeast(absolute_gain, 25)
             THEN [a EXCEPT
                     !.score = @ + 30,
                     !.strengths = Append(@,
                         "Models significantly outperform the baseline.")]
             ELSE IF AtLeast(absolute_gain, 10)
             THEN [a EXCEPT
                     !.score = @ + 15,
                     !.strengths = Append(@,
                         "Models moderately outperform the baseline."),
                     !.recommendations = Append(@,
                         "Feature engineering could further improve performance.")]
             ELSE [a EXCEPT
                     !.score = @ - 20,
                     !.risks = Append(@,
                         "Models show limited improvement over the baseline."),
                     !.recommendations = Append(@,
                         "Consider revisiting feature selection or problem framing.")]

CheckFeatureRichness(a) ==
    LET feature_count == Len(a.schema.numeric) + Len(a.schema.ordinal)
                         + Len(a.schema.categorical)
    IN  IF feature_count >= 6
        THEN [a EXCEPT
                !.score = @ + 10,
                !.strengths = Append(@,
                    "Dataset contains a diverse and informative feature set.")]
        ELSE IF feature_count <= 2
        THEN [a EXCEPT
                !.score = @ - 10,
                !.risks = Append(@,
                    "Very limited number of usable features detected.")]
        ELSE a

\* variant: no default strength
FinalizeScoreNoDefault(a) == a

FinalizeScore(a) ==
    IF a.risks = <<>> /\ a.strengths = <<>>
    THEN [a EXCEPT !.strengths =
                      Append(@, "No major data quality issues detected.")]
    ELSE a

\* variant: the thresholds are exclusive
VerdictExclusive(a) ==
    IF a.score > 80 THEN "Strong ML potential"
    ELSE IF a.score > 60 THEN "Moderate ML potential"
    ELSE "Low ML potential"

Verdict(a) ==
    IF a.score >= 80 THEN "Strong ML potential"
    ELSE IF a.score >= 60 THEN "Moderate ML potential"
    ELSE "Low ML potential"

\* variant: the score is returned as it is
ClampScoreNot(x) == x

\* min(max(self.score, 0), 100)
ClampScore(x) == IF x < 0 THEN 0 ELSE IF x > 100 THEN 100 ELSE x

\* the analyzer after the four steps of analyze()
AnalyzeSteps(a) ==
    FinalizeScore(CheckFeatureRichness(CheckModelImprovement(
        CheckTargetImbalance(a))))

\* the dict analyze() returns
Report(a) ==
    [ learnability_score |-> ClampScore(a.score),
      verdict |-> Verdict(a),
      strengths |-> a.strengths,
      risks |-> a.risks,
      recommendations |-> a.recommendations ]

----------------------------------------------------------------------------
(* Schema detection and cleaning of one dataset *)

\* a schema as detect returned it, or edited by hand so that the target is
\* also listed as id, numeric, categorical and datetime column
AddTarget(list, target) ==
    IF Contains(list, target) THEN list ELSE Append(list, target)

Misclassified(s) ==
    [s EXCEPT !.id_columns  = AddTarget(@, s.target),
              !.numeric     = AddTarget(@, s.target),
              !.categorical = AddTarget(@, s.target),
              !.datetime    = AddTarget(@, s.target)]

SchemaInputs(s) == {s, Misclassified(s)}

TrainerIdle ==
    /\ tr = NewTrainer
    /\ tr_df = TrainerFrame(<<>>, 0)
    /\ tr_schema = NoSchema
    /\ cv = [n \in ModelNames |-> Unknown]
    /\ files = NoFiles
    /\ last = [op |-> "none", outcome |-> "none", n |-> 0]

PipeInit ==
    /\ df \in Datasets
    /\ target_col \in Range(Columns(df)) \cup {AbsentName}
    /\ schema = NoSchema
    /\ detect_state = "new"
    /\ cleaner = NoCleaner
    /\ clean_pc = "none"
    /\ before = <<>>
    /\ cleaned_df = <<>>
    /\ TrainerIdle
    /\ StagesIdle
    /\ AppIdle

\* SchemaDetector(df).detect(target_col)
Detect ==
    /\ detect_state = "new"
    /\ IF ValidateTargetRaises(df, target_col)
       THEN detect_state' = "ValueError" /\ schema' = schema
       ELSE detect_state' = "returned" /\ schema' = DetectSchema(df, target_col)
    /\ UNCHANGED <<df, target_col, cleaner, clean_pc, before, cleaned_df>>
    /\ UNCHANGED <<trainVars, edaVars, qualVars, appVars>>

\* DataCleaner(df, schema)
CleanerInit ==
    /\ detect_state = "returned"
    /\ clean_pc = "none"
    /\ \E s \in SchemaInputs(schema) :
          /\ cleaner' = [ df |-> df, own_df |-> CopiesInput(df), schema |-> s,
                          target |-> s.target, report |-> EmptyReport ]
          /\ clean_pc' = IF HasColumn(df, s.target)
                         THEN "constructed" ELSE "ValueError"
    /\ before' = df
    /\ UNCHANGED <<df, target_col, schema, detect_state, cleaned_df>>
    /\ UNCHANGED <<trainVars, edaVars, qualVars, appVars>>

\* one stage of clean(): it writes self.df, which is the caller's frame too
\* unless the cleaner made a copy
CleanStep(from, to, newdf, newreport) ==
    /\ clean_pc = from
    /\ clean_pc' = to
    /\ before' = cleaner.df
    /\ cleaner' = [cleaner EXCEPT !.df = newdf, !.report = newreport]
    /\ df' = IF cleaner.own_df THEN df ELSE newdf
    /\ UNCHANGED <<target_col, schema, detect_state, cleaned_df>>
    /\ UNCHANGED <<trainVars, edaVars, qualVars, appVars>>

\* clean(): self._drop_id_columns()
StepDropIdColumns ==
    CleanStep("constructed", "ids_dropped",
              DropIdColumns(cleaner.df, cleaner.schema, cleaner.target),
              [cleaner.report EXCEPT !.removed_id_columns =
                  IF cleaner.schema.id_columns = <<>> THEN @
                  ELSE IdColumnsToDrop(cleaner.schema, cleaner.target)])

\* clean(): self._handle_missing_values(); an IndexError ends clean()
StepHandleMissingValues ==
    CleanStep("ids_dropped",
              IF FirstModeRaise(FillNumeric(cleaner.df, cleaner.schema,
                                            cleaner.target),
                                cleaner.schema, cleaner.target) = 0
              THEN "missing_handled" ELSE "IndexError",
              HandleMissingValues(cleaner.df, cleaner.schema, cleaner.target),
              IF \/ FirstModeRaise(FillNumeric(cleaner.df, cleaner.schema,
                                               cleaner.target),
                                   cleaner.schema, cleaner.target) # 0
                 \/ MissingInfo(cleaner.df, cleaner.schema, cleaner.target) = {}
              THEN cleaner.report
              ELSE [cleaner.report EXCEPT !.missing_values =
                      MissingInfo(cleaner.df, cleaner.schema, cleaner.target)])

\* clean(): self._fix_column_types()
StepFixColumnTypes ==
    CleanStep("missing_handled", "types_fixed",
              FixColumnTypes(cleaner.df, cleaner.schema, cleaner.target),
              [cleaner.report EXCEPT !.type_casting =
                  TypeChanges(cleaner.df, cleaner.schema, cleaner.target)])

\* clean(): self._fix_outliers()
StepFixOutliers ==
    CleanStep("types_fixed", "outliers_fixed",
              FixOutliers(cleaner.df, cleaner.schema, cleaner.target),
              [cleaner.report EXCEPT !.outliers =
                  OutlierInfo(cleaner.df, cleaner.schema, cleaner.target)])

\* clean(): self._detect_high_cardinality()
StepDetectHighCardinality ==
    CleanStep("outliers_fixed", "cardinality_checked",
              cleaner.df,
              [cleaner.report EXCEPT !.high_cardinality =
                  HighCardinalityInfo(cleaner.df, cleaner.schema, cleaner.target)])

\* clean(): return self.df.reset_index(drop=True), self._generate_report()
CleanReturn ==
    /\ clean_pc = "cardinality_checked"
    /\ clean_pc' = "returned"
    /\ cleaned_df' = cleaner.df
    /\ UNCHANGED <<df, target_col, schema, detect_state, cleaner, before>>
    /\ UNCHANGED <<trainVars, edaVars, qualVars, appVars>>

PipeNext ==
    \/ Detect
    \/ CleanerInit
    \/ StepDropIdColumns
    \/ StepHandleMissingValues
    \/ StepFixColumnTypes
    \/ StepFixOutliers
    \/ StepDetectHighCardinality
    \/ CleanReturn

Spec == PipeInit /\ [][PipeNext]_vars

----------------------------------------------------------------------------
(* Claims about SchemaDetector and DataCleaner, checked under Spec *)

Disjoint(a, b) == Range(a) \cap Range(b) = {}

\* C1: in every schema detect returns, the role groups numeric, ordinal,
\* categorical, datetime, id_columns, high_cardinality_columns and
\* high_missing_categorical are pairwise disjoint and none holds the target.
C1_RolePartition ==
    detect_state = "returned" =>
        /\ \A i, j \in DOMAIN RoleGroups(schema) :
              i < j => Disjoint(RoleGroups(schema)[i], RoleGroups(schema)[j])
        /\ \A i \in DOMAIN RoleGroups(schema) :
              ~Contains(RoleGroups(schema)[i], schema.target)

HasWarning(s, text) == \E i \in DOMAIN s.warnings : s.warnings[i].msg = text

C3_TargetUntouched ==
    clean_pc = "returned" =>
        /\ HasColumn(cleaned_df, cleaner.target)
        /\ Col(cleaned_df, cleaner.target) = Col(df, cleaner.target)

\* clean() returned for a schema listing the target as id and numeric column,
\* the target has a missing cell and an outlier, and cleaning changed or
\* dropped another column
C3_Witness ==
    /\ clean_pc = "returned"
    /\ Contains(cleaner.schema.id_columns, cleaner.target)
    /\ Contains(cleaner.schema.numeric, cleaner.target)
    /\ NMissing(Col(df, cleaner.target).cells) > 0
    /\ CapsOutliers(Col(df, cleaner.target).cells)
    /\ \E i \in DOMAIN df :
          \/ ~HasColumn(cleaned_df, df[i].name)
          \/ Col(cleaned_df, df[i].name) # df[i]

FeatureColumns(s, lists) ==
    {c \in UNION {Range(l) : l \in lists} : c # s.target}

\* C4: after clean() no feature column listed as numeric, ordinal or
\* categorical has a missing cell.
C4_NoMissingLeft ==
    clean_pc = "returned" =>
        \A c \in FeatureColumns(cleaner.schema,
                    { cleaner.schema.numeric, cleaner.schema.ordinal,
                      cleaner.schema.categorical }) :
            HasColumn(cleaned_df, c) => NMissing(Col(cleaned_df, c).cells) = 0

\* C5: after clean() no column listed in id_columns, high_cardinality_columns
\* or high_missing_categorical, other than the target, is present.
C5_FlaggedColumnsDropped ==
    clean_pc = "returned" =>
        \A c \in FeatureColumns(cleaner.schema,
                    { cleaner.schema.id_columns,
                      cleaner.schema.high_cardinality_columns,
                      cleaner.schema.high_missing_categorical }) :
            ~HasColumn(cleaned_df, c)

\* C6: after _fix_outliers every value of a numeric feature column whose
\* quartiles before the step had a non-zero IQR lies within
\* [Q1 - 1.5 IQR, Q3 + 1.5 IQR] of those quartiles; a column whose IQR was
\* zero is unchanged.
C6_OutliersCapped ==
    clean_pc = "outliers_fixed" =>
        \A c \in Range(Visited(before, cleaner.schema.numeric, cleaner.target)) :
            LET pre  == Col(before, c).cells
                post == Col(cleaner.df, c).cells
            IN  Values(pre) # {} =>
                  IF IQRx4(pre) # 0
                  THEN \A i \in Present(post) :
                          /\ Lower8(pre) <= 8 * post[i].v
                          /\ 8 * post[i].v <= Upper8(pre)
                  ELSE post = pre

\* _fix_outliers ran on a numeric column with values below and above the
\* fences and replaced them, and on one with zero IQR and a far value
C6_Witness ==
    /\ clean_pc = "outliers_fixed"
    /\ \E c \in Range(Visited(before, cleaner.schema.numeric, cleaner.target)) :
          LET pre == Col(before, c).cells IN
          /\ \E i \in Present(pre) : 8 * pre[i].v < Lower8(pre)
          /\ \E i \in Present(pre) : 8 * pre[i].v > Upper8(pre)
          /\ IQRx4(pre) # 0
          /\ Col(cleaner.df, c).cells # pre
    /\ \E c \in Range(Visited(before, cleaner.schema.numeric, cleaner.target)) :
          LET pre == Col(before, c).cells IN
          /\ Values(pre) # {}
          /\ IQRx4(pre) = 0
          /\ OutlierRows(pre) # {}

IdNamedColumns == {"user_id", "Paid"}

NearUnique(c) == 100 * NUnique(c.cells) > 98 * Len(c.cells)

C18_CleanIsTotal ==
    (HasColumn(df, cleaner.target) /\ cleaner.schema = schema)
        => clean_pc \notin {"ValueError", "IndexError"}

\* clean() returned, under the schema as detected, for a dataset with a text
\* column that has no value at all and a categorical column whose missing
\* cells were filled
C18_Witness ==
    /\ clean_pc = "returned"
    /\ cleaner.schema = schema
    /\ \E i \in DOMAIN df :
          /\ df[i].name # target_col
          /\ df[i].dtype = "object"
          /\ Values(df[i].cells) = {}
          /\ HasColumn(cleaned_df, df[i].name)
    /\ \E c \in Range(schema.categorical) :
          /\ c # target_col
          /\ NMissing(Col(df, c).cells) > 0
          /\ NMissing(Col(cleaned_df, c).cells) = 0

----------------------------------------------------------------------------
(* Claims about ModelTrainer, checked under SpecTrainer *)

Succeeded(t) ==
    {n \in Range(Roster(tr_schema.task_type)) : t.results[n].kind = "score"}

\* C7: train_all_models before prepare_data, and retrain_best_model,
\* save_best_model or save_training_summary while best_model is None, raise
\* and write no model or summary artifact.
C7_StagesGuarded ==
    /\ (last.op = "train_all_models" /\ ~tr.prepared)
          => last.outcome # "returned"
    /\ (/\ last.op \in {"retrain_best_model", "save_best_model",
                        "save_training_summary"}
        /\ tr.best_model = "None")
          => last.outcome # "returned"
    /\ files.model.written => files.model.model # "None"
    /\ files.summary.written => files.summary.best_model # "None"

\* C8: after train_all_models returns, best_score is the maximum
\* cv_mean_score of the successfully evaluated models in results,
\* best_model_name names a model with that score and best_model is that
\* model, also on a second call on the same trainer.
C8_BestIsMax ==
    (/\ last.op = "train_all_models"
     /\ last.outcome = "returned"
     /\ Succeeded(tr) # {})
        => /\ tr.best_model_name \in Succeeded(tr)
           /\ tr.results[tr.best_model_name].v = tr.best_score
           /\ \A n \in Succeeded(tr) : tr.results[n].v <= tr.best_score
           /\ tr.best_model = tr.best_model_name

\* C9: when cross-validation of one roster model raises while another model
\* succeeds, train_all_models returns normally and the best model is one of
\* the models that did not fail.
C9_FailureIsolated ==
    (/\ last.op = "train_all_models"
     /\ \E n \in Range(Roster(tr_schema.task_type)) : cv[n] = Raise
     /\ \E n \in Range(Roster(tr_schema.task_type)) : cv[n].kind = "score")
        => /\ last.outcome = "returned"
           /\ tr.best_model_name \in Succeeded(tr)
           /\ cv[tr.best_model_name] # Raise

\* C10: train_all_models never returns normally with best_model None and
\* best_score at its initial sentinel.
C10_TotalFailureRaises ==
    (last.op = "train_all_models" /\ last.outcome = "returned")
        => ~(tr.best_model = "None" /\ tr.best_score = BestScoreInit)

RosterBefore(roster, name) ==
    { roster[i] : i \in { k \in DOMAIN roster :
                            \E j \in DOMAIN roster :
                               roster[j] = name /\ k < j } }

\* C28: after train_all_models returns, the selected model is the first in
\* roster order among those of the highest cv_mean_score: Baseline unless
\* another model's mean is strictly greater than Baseline's, and best_score
\* is not lower than Baseline's mean.
C28_FirstOfTheBest ==
    (last.op = "train_all_models" /\ last.outcome = "returned")
        => LET roster == Roster(tr_schema.task_type)
               base   == tr.results["Baseline"]
           IN  /\ \/ tr.best_model_name = "Baseline"
                  \/ \E n \in Range(roster) :
                        /\ tr.results[n].kind = "score"
                        /\ base.kind = "score"
                        /\ tr.results[n].v > base.v
               /\ tr.best_model_name \in Range(roster)
                     => /\ tr.results[tr.best_model_name].kind = "score"
                        /\ \A n \in Range(roster) :
                              tr.results[n].kind = "score"
                                 => tr.results[n].v
                                       <= tr.results[tr.best_model_name].v
                        /\ \A n \in RosterBefore(roster, tr.best_model_name) :
                              tr.results[n].kind = "score"
                                 => tr.results[n].v
                                       < tr.results[tr.best_model_name].v
               /\ base.kind = "score" => tr.best_score >= base.v

ListedFeatures(frame, s) ==
    { c \in Range(s.numeric) \cup Range(s.ordinal) \cup Range(s.categorical) :
        /\ c \in Range(frame.columns)
        /\ c \notin Range(s.id_columns)
        /\ c # s.target }

\* C16: prepare_data takes as features exactly the columns listed as numeric,
\* ordinal or categorical that the frame has, that are no id_columns and not
\* the target; when there is none it raises and X stays unset, the trainer
\* unprepared.
C16_FeatureSelection ==
    last.op = "prepare_data" =>
        IF ListedFeatures(tr_df, tr_schema) = {}
        THEN /\ last.outcome = "ValueError"
             /\ ~tr.prepared
             /\ tr.X = <<>>
        ELSE /\ last.outcome = "returned"
             /\ tr.prepared
             /\ Range(tr.X) = ListedFeatures(tr_df, tr_schema)

\* prepare_data returned for a schema whose role lists name an identifier
\* column, the target and a column the frame lacks, and X holds none of them
C16_Witness ==
    /\ last.op = "prepare_data"
    /\ last.outcome = "returned"
    /\ tr.X # <<>>
    /\ \E c \in Range(tr_schema.numeric) : c \in Range(tr_schema.id_columns)
    /\ Contains(tr_schema.categorical, tr_schema.target)
    /\ \E c \in Range(tr_schema.categorical) : ~Contains(tr_df.columns, c)
    /\ tr_schema.ordinal # <<>>
    /\ Range(tr.X) \subseteq Range(tr_df.columns) \ {tr_schema.target}

----------------------------------------------------------------------------
(* DatasetQualityAnalyzer on its own: one analyzer, analyze() called        *)
(* repeatedly                                                               *)

PipeIdle ==
    /\ df = <<>>
    /\ target_col = AbsentName
    /\ schema = NoSchema
    /\ detect_state = "new"
    /\ cleaner = NoCleaner
    /\ clean_pc = "none"
    /\ before = <<>>
    /\ cleaned_df = <<>>

\* schemas with 0 to 8 features over the three role lists
QualitySchemas ==
    { [NoSchema EXCEPT !.numeric = n, !.ordinal = o, !.categorical = c] :
        n \in {<<>>, <<"age">>, <<"age", "fare", "height">>},
        o \in {<<>>, <<"rank", "grade">>},
        c \in {<<>>, <<"city">>, <<"city", "sex", "deck">>} }

TargetAnalysis(task, counts) ==
    [ task_type |-> task, has_distribution |-> task = "classification",
      class_distribution |-> counts ]

QualityEdaReports ==
    { [EmptyEdaReport EXCEPT !.target_analysis = t] :
        t \in { NoTargetAnalysis,
                TargetAnalysis("regression", <<>>),
                TargetAnalysis("classification", <<>>),
                TargetAnalysis("classification", <<6, 5>>),
                TargetAnalysis("classification", <<10, 1>>),
                TargetAnalysis("classification", <<11, 1>>),
                TargetAnalysis("classification", <<21, 2>>) } }

QualityMeans == {NaN} \cup {Score(h) : h \in {0, 10, 25}}

QualityTrainings ==
    {<<>>}
    \cup { <<Entry(n, m)>> : n \in {"Baseline", "LinearRegression"},
                             m \in QualityMeans }
    \cup { <<Entry("Baseline", m1), Entry("LinearRegression", m2)>> :
             m1 \in QualityMeans, m2 \in QualityMeans }
    \cup { <<Entry("LinearRegression", m1), Entry("Baseline", m2)>> :
             m1 \in QualityMeans, m2 \in QualityMeans }

QualityInit ==
    /\ qa \in { NewAnalyzer(s, e, t) : s \in QualitySchemas,
                  e \in QualityEdaReports, t \in QualityTrainings }
    /\ reports = <<>>
    /\ eda = NoEda
    /\ PipeIdle
    /\ TrainerIdle
    /\ AppIdle

\* analyzer.analyze()
Analyze ==
    /\ qa.constructed
    /\ Len(reports) < MaxAnalyze
    /\ qa' = AnalyzeSteps(qa)
    /\ reports' = Append(reports, Report(AnalyzeSteps(qa)))
    /\ UNCHANGED <<pipeVars, trainVars, edaVars, appVars>>

QualityNext == Analyze

SpecQuality == QualityInit /\ [][QualityNext]_vars

----------------------------------------------------------------------------
(* Claims about DatasetQualityAnalyzer, checked under SpecQuality *)

\* C12: every report analyze() returns has a learnability_score in [0, 100],
\* on every call.
C12_ScoreInRange ==
    \A i \in DOMAIN reports :
        0 <= reports[i].learnability_score /\ reports[i].learnability_score <= 100

\* analyze() was called again on an analyzer whose score had left [0, 100]
C12_Witness ==
    /\ Len(reports) >= 2
    /\ qa.score > 100
    /\ reports[Len(reports)].learnability_score = 100

\* C13: a second analyze() on the same analyzer returns a report equal to
\* the first.
C13_AnalyzeRepeatable ==
    Len(reports) >= 2 => reports[2] = reports[1]

\* C14: in every report the verdict is "Strong ML potential" iff the
\* returned score is at least 80, "Moderate ML potential" iff it is in
\* [60, 80), and "Low ML potential" otherwise.
C14_VerdictMatchesScore ==
    \A i \in DOMAIN reports :
        LET r == reports[i] IN
        /\ r.verdict = "Strong ML potential" <=> r.learnability_score >= 80
        /\ r.verdict = "Moderate ML potential"
              <=> (60 <= r.learnability_score /\ r.learnability_score < 80)
        /\ r.verdict = "Low ML potential" <=> r.learnability_score < 60

\* a report with a score of exactly 80, then one whose score was clamped
C14_Witness ==
    /\ Len(reports) >= 2
    /\ reports[1].learnability_score = 80
    /\ reports[1].verdict = "Strong ML potential"
    /\ qa.score > 100
    /\ reports[2].verdict = "Strong ML potential"

ChecksOnly(a) ==
    CheckFeatureRichness(CheckModelImprovement(CheckTargetImbalance(a)))

\* C15: no report has both strengths and risks empty; when the three checks
\* append neither a strength nor a risk, the strengths are the default
\* strength alone.
C15_NeverEmptyHanded ==
    /\ \A i \in DOMAIN reports :
          reports[i].strengths # <<>> \/ reports[i].risks # <<>>
    /\ (/\ reports # <<>>
        /\ ChecksOnly(NewAnalyzer(qa.schema, qa.eda, qa.training)).strengths = <<>>
        /\ ChecksOnly(NewAnalyzer(qa.schema, qa.eda, qa.training)).risks = <<>>)
          => reports[1].strengths = <<"No major data quality issues detected.">>

\* analyze() returned for inputs on which no check fires
C15_Witness ==
    /\ reports # <<>>
    /\ reports[1].strengths = <<"No major data quality issues detected.">>
    /\ reports[1].risks = <<>>
    /\ reports[1].learnability_score = 50

\* the scores the three checks can leave, starting from 50
ReachableScores ==
    { 50 + a + b + c : a \in {0, -15}, b \in {0, 30, 15, -20},
                       c \in {10, 0, -10} }

\* best_score - baseline_score of the analyzer's training results
BestMinusBaseline(training) ==
    Gain(PyMax(Head(training).mean, Tail(training)),
         MeanOf(training, "Baseline"))

ImbalancePenalty(e) ==
    /\ e.target_analysis.task_type = "classification"
    /\ e.target_analysis.class_distribution # <<>>
    /\ SeqMax(e.target_analysis.class_distribution) >
          10 * (IF SeqMin(e.target_analysis.class_distribution) > 1
                THEN SeqMin(e.target_analysis.class_distribution) ELSE 1)

\* C29: the first report of an analyzer has a learnability score among the
\* values the three checks can reach from 50, between 5 and 90, and the
\* verdict "Strong ML potential" iff a Baseline entry exists with a gain of
\* at least 0.25, no class-imbalance penalty was applied and the schema
\* lists more than 2 numeric, ordinal and categorical features.
C29_FirstReport ==
    reports # <<>>
    => /\ reports[1].learnability_score \in ReachableScores
       /\ 5 <= reports[1].learnability_score
       /\ reports[1].learnability_score <= 90
       /\ reports[1].verdict = "Strong ML potential"
             <=> /\ HasModel(qa.training, "Baseline")
                 /\ BestMinusBaseline(qa.training).kind = "score"
                 /\ BestMinusBaseline(qa.training).v >= 25
                 /\ ~ImbalancePenalty(qa.eda)
                 /\ Len(qa.schema.numeric) + Len(qa.schema.ordinal)
                      + Len(qa.schema.categorical) > 2

\* a first report with a strong verdict for a classification target whose
\* classes are in the ratio 10 : 1
C29_Witness ==
    /\ reports # <<>>
    /\ reports[1].verdict = "Strong ML potential"
    /\ reports[1].learnability_score = 80
    /\ qa.eda.target_analysis.class_distribution = <<10, 1>>

----------------------------------------------------------------------------
(* EDAEngine *)

\* target_data.value_counts(): the counts of the distinct values present,
\* most frequent first
RECURSIVE ValueCountsOf(_, _)
ValueCountsOf(cells, vals) ==
    IF vals = {} THEN <<>>
    ELSE LET n(v)  == Cardinality({i \in DOMAIN cells :
                                      ~cells[i].na /\ cells[i].v = v})
             first == CHOOSE v \in vals :
                         \A w \in vals : n(v) > n(w) \/ (n(v) = n(w) /\ v <= w)
         IN  <<n(first)>> \o ValueCountsOf(cells, vals \ {first})

ValueCounts(cells) == ValueCountsOf(cells, Values(cells))

\* analyze_target_column(): result["summary"] of a regression target is not
\* kept
AnalyzeTargetColumn(d, s) ==
    [ task_type |-> s.task_type,
      has_distribution |-> s.task_type = "classification",
      class_distribution |-> IF s.task_type = "classification"
                             THEN ValueCounts(Col(d, s.target).cells)
                             ELSE <<>> ]

\* analyze_correlations(): the columns correlated
CorrCols(d, s) ==
    Filter(s.numeric \o s.ordinal, LAMBDA c : HasColumn(d, c) /\ c # s.target)

\* variant: one column is enough for a matrix
NotEnoughColumnsNone(corr_cols) == Len(corr_cols) < 1

\* if len(corr_cols) < 2
NotEnoughColumns(corr_cols) == Len(corr_cols) < 2

\* the pairs (c1, c2), c1 before c2, the loop over corr_cols compares
CorrPairs(corr_cols) ==
    LET Pair(i, j) == <<corr_cols[i], corr_cols[j]>>
    IN  UNION { { Pair(i, j) : j \in {k \in DOMAIN corr_cols : k > i} } :
                  i \in DOMAIN corr_cols }

\* EDAEngine(df, schema): it keeps the caller's frame and schema and reads
\* them (cleaned_df and schema here)
EdaInit ==
    /\ clean_pc = "returned"
    /\ eda.state = "none"
    /\ eda' = [ state  |-> IF HasColumn(cleaned_df, schema.target)
                           THEN "constructed" ELSE "ValueError",
                report |-> EmptyEdaReport ]
    /\ UNCHANGED <<pipeVars, trainVars, qualVars, appVars>>

\* generate_report() up to analyze_target_column(); of the report, the
\* entries of generate_basic_statistics, analyze_numeric_columns,
\* analyze_ordinal_columns, analyze_binary_outcomes and generate_key_insights
\* are not kept
EdaAnalyzeTargetColumn ==
    /\ eda.state = "constructed"
    /\ eda' = [ state  |-> "target_analyzed",
                report |-> [eda.report EXCEPT
                              !.keys = @ \cup {"target_analysis"},
                              !.target_analysis =
                                  AnalyzeTargetColumn(cleaned_df, schema)] ]
    /\ UNCHANGED <<pipeVars, trainVars, qualVars, appVars>>

\* generate_report() from analyze_correlations() to its return.  The
\* coefficients are not computed: the matrix is held as the list of columns
\* it covers, and any set of the compared pairs may reach |r| >= 0.8
EdaAnalyzeCorrelations ==
    /\ eda.state = "target_analyzed"
    /\ \E high \in SUBSET CorrPairs(CorrCols(cleaned_df, schema)) :
          eda' = [ state  |-> "returned",
                   report |-> [eda.report EXCEPT
                      !.keys = @ \cup {"correlation_matrix",
                                       "high_correlation_pairs"},
                      !.correlation_matrix =
                          IF NotEnoughColumns(CorrCols(cleaned_df, schema))
                          THEN <<>> ELSE CorrCols(cleaned_df, schema),
                      !.high_correlation_pairs =
                          IF NotEnoughColumns(CorrCols(cleaned_df, schema))
                          THEN {} ELSE high] ]
    /\ UNCHANGED <<pipeVars, trainVars, qualVars, appVars>>

----------------------------------------------------------------------------
(* The stages in the order of the application's pages: schema detection,   *)
(* cleaning, EDA, training, quality analysis                                *)

\* a score of one unit of the trainer, in the analyzer's hundredths
ScoreUnit == 25

NumericColumn(n, c) == [name |-> n, dtype |-> NumDtype(c), cells |-> c]

TextColumn(n, c) == [name |-> n, dtype |-> "object", cells |-> c]

\* a two-class target with two numeric features to clean; a regression target
\* with one numeric and one categorical feature; a two-class target with no
\* feature column; a constant target with two features
StageDatasets ==
    { << NumericColumn("age", NumCells(NRows, 1, TRUE, "high")),
         NumericColumn("fare", NumCells(2, 1, FALSE, "none")),
         NumericColumn("y", NumCells(2, 0, FALSE, "none")) >>,
      << NumericColumn("age", NumCells(2, 0, TRUE, "both")),
         TextColumn("fare", TxtCells(2, 1, FALSE)),
         NumericColumn("y", NumCells(NRows, 0, TRUE, "high")) >>,
      << NumericColumn("user_id", NumCells(NRows, 0, FALSE, "none")),
         TextColumn("fare", TxtCells(NRows, 0, FALSE)),
         TextColumn("y", TxtCells(2, 0, FALSE)) >>,
      << TextColumn("age", TxtCells(2, 1, FALSE)),
         NumericColumn("fare", NumCells(1, 0, TRUE, "high")),
         TextColumn("y", TxtCells(1, 0, FALSE)) >> }

StagesInit ==
    /\ df \in StageDatasets
    /\ target_col = "y"
    /\ schema = NoSchema
    /\ detect_state = "new"
    /\ cleaner = NoCleaner
    /\ clean_pc = "none"
    /\ before = <<>>
    /\ cleaned_df = <<>>
    /\ TrainerIdle
    /\ StagesIdle
    /\ AppIdle

\* DataCleaner(df, schema) with the schema detect returned
StageCleanerInit == CleanerInit /\ cleaner'.schema = schema

\* ModelTrainer(df, schema) on the cleaned frame, once the EDA report is there
StageTrainerInit ==
    /\ eda.state = "returned"
    /\ last.op = "none"
    /\ tr' = NewTrainer
    /\ tr_df' = TrainerFrame(Columns(cleaned_df),
                             IF HasColumn(cleaned_df, schema.target)
                             THEN NUnique(Col(cleaned_df, schema.target).cells)
                             ELSE 0)
    /\ tr_schema' = schema
    /\ last' = [ op |-> "__init__",
                 outcome |-> IF HasColumn(cleaned_df, schema.target)
                             THEN "returned" ELSE "ValueError",
                 n |-> 0 ]
    /\ UNCHANGED <<cv, files>>
    /\ UNCHANGED <<pipeVars, edaVars, qualVars, appVars>>

StagePrepareData ==
    /\ last.op = "__init__" /\ last.outcome = "returned"
    /\ PrepareData

StageTrainAllModels ==
    /\ last.op = "prepare_data" /\ last.outcome = "returned"
    /\ TrainAllModels

\* the page stops when no model was selected
StageRetrainBestModel ==
    /\ last.op = "train_all_models" /\ last.outcome = "returned"
    /\ tr.best_model_name # "None"
    /\ RetrainBestModel

\* training_results: self.results, the models in the order they were trained
TrainingResults(t, roster) ==
    LET trained == Filter(roster, LAMBDA n : t.results[n] # Absent)
    IN  [ i \in DOMAIN trained |->
            Entry(trained[i],
                  IF t.results[trained[i]].kind = "score"
                  THEN Score(ScoreUnit * t.results[trained[i]].v)
                  ELSE NaN) ]

\* DatasetQualityAnalyzer(schema, eda_report, training_results)
StageAnalyzerInit ==
    /\ last.op = "retrain_best_model" /\ last.outcome = "returned"
    /\ ~qa.constructed
    /\ qa' = NewAnalyzer(schema, eda.report,
                         TrainingResults(tr, Roster(tr_schema.task_type)))
    /\ UNCHANGED reports
    /\ UNCHANGED <<pipeVars, trainVars, edaVars, appVars>>

StagesNext ==
    \/ Detect
    \/ StageCleanerInit
    \/ StepDropIdColumns
    \/ StepHandleMissingValues
    \/ StepFixColumnTypes
    \/ StepFixOutliers
    \/ StepDetectHighCardinality
    \/ CleanReturn
    \/ EdaInit
    \/ EdaAnalyzeTargetColumn
    \/ EdaAnalyzeCorrelations
    \/ StageTrainerInit
    \/ StagePrepareData
    \/ StageTrainAllModels
    \/ StageRetrainBestModel
    \/ StageAnalyzerInit
    \/ Analyze

SpecStages == StagesInit /\ [][StagesNext]_vars

----------------------------------------------------------------------------
(* Claims about the stages together, checked under SpecStages *)

\* C11 as claimed: for a dataset whose target column is constant, detect
\* emits the constant-target warning and constructing ModelTrainer with that
\* dataset and schema raises, so prepare_data and train_all_models never run
\* on a constant target.
C11_ConstantTargetIsFatal ==
    (detect_state = "returned" /\ NUnique(Col(df, target_col).cells) <= 1) =>
        /\ HasWarning(schema, "Target column is constant or near-constant.")
        /\ ~(last.op = "__init__" /\ last.outcome = "returned")
        /\ last.op \notin {"prepare_data", "train_all_models",
                           "retrain_best_model"}

\* C19: when fewer than two numeric/ordinal feature columns other than the
\* target are present, analyze_correlations returns and the EDA report holds
\* an empty correlation_matrix and empty high_correlation_pairs.
C19_TooFewColumnsNoCorrelations ==
    (eda.state = "returned" /\ Len(CorrCols(cleaned_df, schema)) < 2) =>
        /\ {"correlation_matrix", "high_correlation_pairs"} \subseteq
               eda.report.keys
        /\ eda.report.correlation_matrix = <<>>
        /\ eda.report.high_correlation_pairs = {}

\* generate_report() returned on a frame with exactly one such column
C19_Witness ==
    /\ eda.state = "returned"
    /\ Len(CorrCols(cleaned_df, schema)) = 1
    /\ eda.report.correlation_matrix = <<>>
    /\ "high_correlation_pairs" \in eda.report.keys

\* what a step leaves as it was: the raw frame; the schema once detect
\* returned it; the cleaned frame once clean returned it; the frame and
\* schema the trainer was given; the schema the analyzer was given
StageInputsKept ==
    /\ df' = df
    /\ detect_state = "returned" => schema' = schema
    /\ clean_pc = "returned" => cleaned_df' = cleaned_df
    /\ last.op # "none" => (tr_df' = tr_df /\ tr_schema' = tr_schema)
    /\ qa.constructed => qa'.schema = qa.schema

\* C20: no stage changes its inputs as its caller sees them: through
\* DataCleaner.clean, EDAEngine.generate_report, ModelTrainer.prepare_data,
\* train_all_models and retrain_best_model, and DatasetQualityAnalyzer.analyze,
\* the DataFrame passed in and the schema passed in stay as they were.
C20_InputsUnchanged == [][StageInputsKept]_vars

\* every stage has run, and cleaning changed the cleaner's own frame
C20_Witness ==
    /\ reports # <<>>
    /\ tr.fitted
    /\ eda.state = "returned"
    /\ clean_pc = "returned"
    /\ cleaned_df # df
    /\ qa.schema = schema

----------------------------------------------------------------------------
(* DataLoader *)

\* more rows than max_rows of either plan
ManyRows == 600000

\* the frames the files hold: two frames of the same columns and dtypes (a
\* schema detected on one names columns of the other, of the same kind),
\* with different cells
FirstFrame ==
    << NumericColumn("age", NumCells(2, 0, TRUE, "both")),
       TextColumn("fare", TxtCells(2, 1, FALSE)),
       NumericColumn("y", NumCells(NRows, 0, TRUE, "high")) >>

SecondFrame ==
    << NumericColumn("age", NumCells(2, 1, FALSE, "none")),
       TextColumn("fare", TxtCells(2, 0, FALSE)),
       NumericColumn("y", NumCells(NRows, 0, FALSE, "none")) >>

UploadFrames == {FirstFrame, SecondFrame}

Files ==
    { [ exists |-> e, csv |-> c, too_large |-> l, utf8 |-> u, parses |-> p,
        many_rows |-> m, frame |-> f ] :
        e \in BOOLEAN, c \in BOOLEAN, l \in BOOLEAN, u \in BOOLEAN,
        p \in BOOLEAN, m \in BOOLEAN, f \in UploadFrames }

\* _check_exists, _check_extension, _check_file_size: the exception raised
CheckExists(f) == IF f.exists THEN "none" ELSE "FileNotFoundError"

CheckExtension(f) == IF f.csv THEN "none" ELSE "ValueError"

CheckFileSize(f) == IF f.too_large THEN "ValueError" ELSE "none"

EncodingsToTry == <<"utf-8", "iso-8859-1", "latin1">>

\* whether read_csv decodes the file with the encoding
Decodes(f, enc) == enc # "utf-8" \/ f.utf8

\* _safe_read_csv: the loop over the encodings catches UnicodeDecodeError
\* only; any other exception of read_csv leaves it.  Dropping "Unnamed"
\* columns and stripping the names leave the frames modelled as they are
RECURSIVE TryEncodings(_, _)
TryEncodings(f, encs) ==
    IF encs = <<>>
    THEN [error |-> "UnicodeDecodeError", df |-> NoFrame, encoding |-> "none"]
    ELSE IF ~Decodes(f, Head(encs)) THEN TryEncodings(f, Tail(encs))
    ELSE IF ~f.parses
         THEN [error |-> "ParserError", df |-> NoFrame, encoding |-> "none"]
         ELSE [error |-> "none", df |-> f.frame, encoding |-> Head(encs)]

SafeReadCsv(f) == TryEncodings(f, EncodingsToTry)

\* _build_metadata: rows, columns and encoding_used are kept
BuildMetadata(f, d, enc) ==
    [ rows |-> IF f.many_rows THEN ManyRows ELSE NRows, columns |-> Len(d),
      encoding_used |-> enc ]

\* variant: the exception leaves load() as it was raised
SurfacedAsRaised(cause) == cause

\* except Exception as e: raise ValueError(f"Failed to load CSV: {e}")
Surfaced(cause) == "ValueError"

\* DataLoader(file_path).load() as a whole
Load(f) ==
    LET checks == <<CheckExists(f), CheckExtension(f), CheckFileSize(f)>>
        failed == {i \in DOMAIN checks : checks[i] # "none"}
        first  == CHOOSE i \in failed : \A j \in failed : i <= j
        read   == SafeReadCsv(f)
    IN  IF failed # {}
        THEN [error |-> Surfaced(checks[first]), df |-> NoFrame, meta |-> NoMeta]
        ELSE IF read.error # "none"
        THEN [error |-> Surfaced(read.error), df |-> NoFrame, meta |-> NoMeta]
        ELSE [ error |-> "none", df |-> read.df,
               meta |-> BuildMetadata(f, read.df, read.encoding) ]

NewLoader(f) == [NoLoader EXCEPT !.file = f, !.pc = "constructed"]

LoaderInit ==
    /\ loader \in {NewLoader(f) : f \in Files}
    /\ session = EmptySession
    /\ account = [is_admin |-> FALSE, plan |-> "free", usage |-> NoUsage]
    /\ net = [key |-> FALSE, calls |-> 0]
    /\ page_run = NoRun
    /\ pdf = NoPdf
    /\ PipeIdle
    /\ TrainerIdle
    /\ StagesIdle

\* one step of load(): a check that passes, or the except clause
LoadStep(from, to, cause) ==
    /\ loader.pc = from
    /\ loader' = IF cause = "none"
                 THEN [loader EXCEPT !.pc = to]
                 ELSE [loader EXCEPT !.pc = "raised", !.error = Surfaced(cause)]
    /\ UNCHANGED <<session, account, net, page_run, pdf>>
    /\ UNCHANGED <<pipeVars, trainVars, edaVars, qualVars>>

StepCheckExists ==
    LoadStep("constructed", "exists_checked", CheckExists(loader.file))

StepCheckExtension ==
    LoadStep("exists_checked", "extension_checked", CheckExtension(loader.file))

StepCheckFileSize ==
    LoadStep("extension_checked", "size_checked", CheckFileSize(loader.file))

\* load(): self._safe_read_csv() and self._build_metadata(...); the file is
\* opened here for the first time (_detect_separator)
StepSafeReadCsv ==
    /\ loader.pc = "size_checked"
    /\ LET read == SafeReadCsv(loader.file)
       IN  loader' =
             IF read.error # "none"
             THEN [loader EXCEPT !.pc = "raised", !.opened = TRUE,
                                 !.error = Surfaced(read.error)]
             ELSE [loader EXCEPT !.pc = "read", !.opened = TRUE,
                                 !.df = read.df,
                                 !.meta = BuildMetadata(loader.file, read.df,
                                                        read.encoding)]
    /\ UNCHANGED <<session, account, net, page_run, pdf>>
    /\ UNCHANGED <<pipeVars, trainVars, edaVars, qualVars>>

\* load(): return df.copy(), metadata
LoadReturn ==
    /\ loader.pc = "read"
    /\ loader' = [loader EXCEPT !.pc = "returned"]
    /\ UNCHANGED <<session, account, net, page_run, pdf>>
    /\ UNCHANGED <<pipeVars, trainVars, edaVars, qualVars>>

LoaderNext ==
    \/ StepCheckExists
    \/ StepCheckExtension
    \/ StepCheckFileSize
    \/ StepSafeReadCsv
    \/ LoadReturn

SpecLoader == LoaderInit /\ [][LoaderNext]_vars

----------------------------------------------------------------------------
(* Claims about DataLoader, checked under SpecLoader *)

\* C21: load() opens the file only after the existence, extension and size
\* checks have passed, and every violation (missing file, extension other
\* than .csv, size above 200 MB, content no fallback encoding decodes)
\* reaches the caller as a ValueError, with no DataFrame and no metadata.
C21_LoadValidates ==
    /\ loader.opened =>
          /\ loader.file.exists
          /\ loader.file.csv
          /\ ~loader.file.too_large
    /\ (\/ ~loader.file.exists
        \/ ~loader.file.csv
        \/ loader.file.too_large
        \/ \A i \in DOMAIN EncodingsToTry :
              ~Decodes(loader.file, EncodingsToTry[i]))
          => loader.pc # "returned" /\ loader.pc # "read"
    /\ loader.pc = "raised" =>
          /\ loader.error = "ValueError"
          /\ loader.df = NoFrame
          /\ loader.meta = NoMeta
    /\ loader.pc = "returned" => loader.error = "none"

\* load() raised for a missing file without opening it
C21_Witness ==
    /\ loader.pc = "raised"
    /\ ~loader.file.exists
    /\ ~loader.opened
    /\ loader.error = "ValueError"

----------------------------------------------------------------------------
(* usage_manager *)

UploadsPerSession == 2

PipelineRunsPerSession == 2

LlmCallsPerSession == 1

FreeMaxRows == 50000

ProMaxRows == 500000

\* float("inf"): more than any counter reaches
Unlimited == 1000000000

PlanLimits(plan) ==
    IF plan = "free"
    THEN [ uploads |-> UploadsPerSession,
           pipeline_runs |-> PipelineRunsPerSession,
           llm_calls |-> LlmCallsPerSession, max_rows |-> FreeMaxRows ]
    ELSE [ uploads |-> Unlimited, pipeline_runs |-> Unlimited,
           llm_calls |-> Unlimited, max_rows |-> ProMaxRows ]

GetCurrentPlan(acc) == IF acc.is_admin THEN "pro" ELSE acc.plan

GetPlanLimits(acc) == PlanLimits(GetCurrentPlan(acc))

IncrementUsage(acc, key) ==
    IF acc.is_admin THEN acc ELSE [acc EXCEPT !.usage[key] = @ + 1]

\* variant: a counter at its limit still passes
CheckLimitInclusive(acc, key) ==
    acc.is_admin \/ acc.usage[key] <= GetPlanLimits(acc)[key]

CheckLimit(acc, key) ==
    acc.is_admin \/ acc.usage[key] < GetPlanLimits(acc)[key]

----------------------------------------------------------------------------
(* The pages of the application.  A page run with its button pressed is one *)
(* step; a run that only draws the page changes nothing and is left out.    *)

MaxPageRuns == 6

MayRun == page_run.n < MaxPageRuns

Ran(page, outcome) ==
    page_run' = [page |-> page, outcome |-> outcome, n |-> page_run.n + 1]

\* the uploads: st.file_uploader(type=["csv"]) writes the bytes to
\* _temp_upload.csv, so the path exists and ends in .csv; one file that
\* does not parse and one of too many rows are among them
Uploads ==
    { f \in Files : /\ f.exists /\ f.csv /\ ~f.too_large /\ f.utf8
                    /\ f.many_rows => f.parses
                    /\ (~f.parses \/ f.many_rows) => f.frame = FirstFrame }

\* variant: any number of rows is accepted
RowsAllowedAlways(rows, acc) == TRUE

\* if len(df) > max_rows: st.stop()
RowsAllowed(rows, acc) == rows <= GetPlanLimits(acc).max_rows

\* 1_Load_Data.py with a file in the uploader
LoadDataPage ==
    /\ MayRun
    /\ \E f \in Uploads :
         IF ~CheckLimit(account, "uploads")
         THEN /\ Ran("Load Data", "limit")
              /\ UNCHANGED <<loader, session, account>>
         ELSE /\ loader' = [ file |-> f, pc |-> IF Load(f).error = "none"
                                               THEN "returned" ELSE "raised",
                             opened |-> TRUE, error |-> Load(f).error,
                             df |-> Load(f).df, meta |-> Load(f).meta ]
              /\ IF Load(f).error # "none"
                 THEN /\ Ran("Load Data", "load_failed")
                      /\ UNCHANGED <<session, account>>
                 ELSE IF ~RowsAllowed(Load(f).meta.rows, account)
                 THEN /\ Ran("Load Data", "too_many_rows")
                      /\ UNCHANGED <<session, account>>
                 ELSE /\ Ran("Load Data", "loaded")
                      /\ account' = IncrementUsage(account, "uploads")
                      /\ session' = [session EXCEPT
                            !.keys = @ \cup {"raw_df", "df", "meta"},
                            !.raw_df = Load(f).df,
                            !.df = Load(f).df,
                            !.meta = Load(f).meta]
    /\ UNCHANGED <<net, pdf>>
    /\ UNCHANGED <<pipeVars, trainVars, edaVars, qualVars>>

\* 2_Schema.py with Analyze Schema pressed; the selectbox offers the
\* columns of session df
SchemaPage ==
    /\ MayRun
    /\ "df" \in session.keys
    /\ \E target \in Range(Columns(session.df)) :
          session' = [session EXCEPT
                        !.keys = @ \cup {"schema"},
                        !.schema = DetectSchema(session.df, target)]
    /\ Ran("Schema", "detected")
    /\ UNCHANGED <<loader, account, net, pdf>>
    /\ UNCHANGED <<pipeVars, trainVars, edaVars, qualVars>>

\* DataCleaner(df, schema).clean() as a whole
CleanRun(d, s) ==
    LET t  == s.target
        d1 == DropIdColumns(d, s, t)
        r1 == [EmptyReport EXCEPT !.removed_id_columns =
                 IF s.id_columns = <<>> THEN @ ELSE IdColumnsToDrop(s, t)]
        d2 == HandleMissingValues(d1, s, t)
        r2 == IF MissingInfo(d1, s, t) = {} THEN r1
              ELSE [r1 EXCEPT !.missing_values = MissingInfo(d1, s, t)]
        d3 == FixColumnTypes(d2, s, t)
        r3 == [r2 EXCEPT !.type_casting = TypeChanges(d2, s, t)]
        d4 == FixOutliers(d3, s, t)
        r4 == [r3 EXCEPT !.outliers = OutlierInfo(d3, s, t)]
        r5 == [r4 EXCEPT !.high_cardinality = HighCardinalityInfo(d4, s, t)]
    IN  IF ~HasColumn(d, t)
        THEN [error |-> "ValueError", df |-> NoFrame, report |-> EmptyReport]
        ELSE IF FirstModeRaise(FillNumeric(d1, s, t), s, t) # 0
        THEN [error |-> "IndexError", df |-> NoFrame, report |-> EmptyReport]
        ELSE [error |-> "none", df |-> d4, report |-> r5]

\* the schemas a session can hold: detect() on an uploaded frame
SessionSchemas ==
    UNION { { DetectSchema(d, target) : target \in Range(Columns(d)) } :
            d \in UploadFrames }

\* clean() of each frame a session can hold under each schema it can hold
CleanRuns ==
    [d \in UploadFrames |-> [s \in SessionSchemas |-> CleanRun(d, s)]]

\* 3_Cleaning.py with Run Cleaning Pipeline pressed
CleaningPage ==
    /\ MayRun
    /\ {"df", "schema"} \subseteq session.keys
    /\ LET c == CleanRuns[session.df][session.schema]
       IN  IF c.error # "none"
           THEN Ran("Cleaning", c.error) /\ UNCHANGED session
           ELSE /\ Ran("Cleaning", "cleaned")
                /\ session' = [session EXCEPT
                      !.keys = @ \cup {"cleaned_df", "cleaning_report"},
                      !.cleaned_df = c.df,
                      !.cleaning_report = c.report]
    /\ UNCHANGED <<loader, account, net, pdf>>
    /\ UNCHANGED <<pipeVars, trainVars, edaVars, qualVars>>

\* EDAEngine(df, schema).generate_report(), of which target_analysis and the
\* correlation entries are kept; `high` are the pairs with |r| >= 0.8
EdaRun(d, s, high) ==
    [ keys |-> {"target_analysis", "correlation_matrix",
                "high_correlation_pairs"},
      target_analysis |-> AnalyzeTargetColumn(d, s),
      correlation_matrix |-> IF NotEnoughColumns(CorrCols(d, s))
                             THEN <<>> ELSE CorrCols(d, s),
      high_correlation_pairs |-> IF NotEnoughColumns(CorrCols(d, s))
                                 THEN {} ELSE high ]

\* 4_EDA.py with Run EDA Analysis pressed
EdaPage ==
    /\ MayRun
    /\ {"cleaned_df", "schema"} \subseteq session.keys
    /\ IF ~HasColumn(session.cleaned_df, session.schema.target)
       THEN Ran("EDA", "ValueError") /\ UNCHANGED session
       ELSE /\ Ran("EDA", "reported")
            /\ \E high \in SUBSET CorrPairs(CorrCols(session.cleaned_df,
                                                     session.schema)) :
                 session' = [session EXCEPT
                    !.keys = @ \cup {"eda_report"},
                    !.eda_report = EdaRun(session.cleaned_df, session.schema,
                                          high)]
    /\ UNCHANGED <<loader, account, net, pdf>>
    /\ UNCHANGED <<pipeVars, trainVars, edaVars, qualVars>>

\* the keys of the dict analyze() returns
ReportKeys ==
    {"learnability_score", "verdict", "strengths", "risks", "recommendations"}

\* st.session_state.get("eda_report", {})
SessionEdaReport(ss) ==
    IF "eda_report" \in ss.keys THEN ss.eda_report ELSE EmptyEdaReport

\* what cross_val_score yields in a page run: NaN or the lowest score for
\* Baseline, and one outcome that the other models of the roster share
PageCv(roster) ==
    { [n \in Range(roster) |-> IF n = "Baseline" THEN b ELSE x] :
        b \in {NaN, Score(0)}, x \in Outcomes }

\* the trainer of a page run after prepare_data() and train_all_models(),
\* cross_val_score yielding o[n] for model n
TrainedOn(d, s, o) ==
    LET frame == TrainerFrame(Columns(d), NUnique(Col(d, s.target).cells))
    IN  TrainLoop(Roster(s.task_type), o,
                  [NewTrainer EXCEPT
                     !.prepared = TRUE,
                     !.X = FeatureCols(frame, s),
                     !.label_encoder = (s.task_type = "classification"),
                     !.metric_used = Metric(frame, s)])

\* 5_Training.py with Start AutoML Training pressed: an exception, or
\* st.stop(), ends the run where it occurs
TrainingPage ==
    /\ MayRun
    /\ {"cleaned_df", "schema"} \subseteq session.keys
    /\ IF ~CheckLimit(account, "pipeline_runs")
       THEN /\ Ran("Training", "limit")
            /\ UNCHANGED <<session, account, files>>
       ELSE
       /\ account' = IncrementUsage(account, "pipeline_runs")
       /\ IF ~HasColumn(session.cleaned_df, session.schema.target)
          THEN Ran("Training", "ValueError") /\ UNCHANGED <<session, files>>
          ELSE IF FeatureCols(TrainerFrame(Columns(session.cleaned_df), 0),
                              session.schema) = <<>>
          THEN Ran("Training", "ValueError") /\ UNCHANGED <<session, files>>
          ELSE \E o \in PageCv(Roster(session.schema.task_type)) :
            LET trained == TrainedOn(session.cleaned_df, session.schema, o)
                results == TrainingResults(trained.tr,
                                           Roster(session.schema.task_type))
                quality == Report(AnalyzeSteps(NewAnalyzer(
                               session.schema, SessionEdaReport(session),
                               results)))
            IN  IF trained.raised
                THEN Ran("Training", "Exception") /\ UNCHANGED <<session, files>>
                ELSE IF trained.tr.best_model_name = "None"
                THEN /\ Ran("Training", "stopped")
                     /\ session' = [session EXCEPT
                           !.keys = @ \cup {"training_results"},
                           !.training_results = results]
                     /\ UNCHANGED files
                ELSE /\ session' = [session EXCEPT
                           !.keys = @ \cup {"training_results",
                                            "dataset_quality"},
                           !.training_results = results,
                           !.dataset_quality = quality]
                     /\ IF "reasons" \notin ReportKeys
                        THEN Ran("Training", "KeyError") /\ UNCHANGED files
                        ELSE /\ Ran("Training", "exported")
                             /\ files' =
                                  [ model |-> [written |-> TRUE,
                                               model |-> trained.tr.best_model],
                                    summary |->
                                       [written |-> TRUE,
                                        best_model |-> trained.tr.best_model_name,
                                        best_score |-> trained.tr.best_score] ]
    /\ UNCHANGED <<loader, net, pdf>>
    /\ UNCHANGED <<pipeVars, tr, tr_df, tr_schema, cv, last, edaVars, qualVars>>

\* collect_session_reports(): the keys it looks for
AnalystKeys ==
    {"meta", "schema", "cleaning_report", "eda_report", "training_summary",
     "dataset_quality"}

\* 6_AI_Analyst.py with Generate Analysis pressed: call_groq posts the
\* request unless the key is missing; the page reads no usage counter
AnalystPage ==
    /\ MayRun
    /\ session.keys \cap AnalystKeys # {}
    /\ IF ~net.key
       THEN Ran("AI Analyst", "no_key") /\ UNCHANGED net
       ELSE Ran("AI Analyst", "called") /\ net' = [net EXCEPT !.calls = @ + 1]
    /\ UNCHANGED <<loader, session, account, pdf>>
    /\ UNCHANGED <<pipeVars, trainVars, edaVars, qualVars>>

RequiredKeys ==
    {"meta", "schema", "cleaning_report", "eda_report", "training_results",
     "dataset_quality"}

\* st.session_state.get("training_summary", {})
SessionTrainingSummary(ss) ==
    IF "training_summary" \in ss.keys THEN ss.training_summary ELSE NoSummary

\* 7_Final_Report.py with Generate Final PDF Report pressed:
\* add_model_results(training_summary)
FinalReportPage ==
    /\ MayRun
    /\ RequiredKeys \subseteq session.keys
    /\ pdf' = [ built |-> TRUE,
                best_model |-> SessionTrainingSummary(session).best_model,
                best_score |-> SessionTrainingSummary(session).best_score ]
    /\ Ran("Final Report", "built")
    /\ UNCHANGED <<loader, session, account, net>>
    /\ UNCHANGED <<pipeVars, trainVars, edaVars, qualVars>>

\* a session as init_plan_and_usage() starts it; is_admin is DEVELOPER_MODE
AppInit ==
    /\ loader = NoLoader
    /\ session = EmptySession
    /\ account \in { [is_admin |-> a, plan |-> "free", usage |-> NoUsage] :
                       a \in BOOLEAN }
    /\ net \in { [key |-> k, calls |-> 0] : k \in BOOLEAN }
    /\ page_run = NoRun
    /\ pdf = NoPdf
    /\ PipeIdle
    /\ TrainerIdle
    /\ StagesIdle

AppNext ==
    \/ LoadDataPage
    \/ SchemaPage
    \/ CleaningPage
    \/ EdaPage
    \/ TrainingPage
    \/ AnalystPage
    \/ FinalReportPage

SpecApp == AppInit /\ [][AppNext]_vars

----------------------------------------------------------------------------
(* Claims about the pages, under SpecApp *)

\* C22: quality scoring on the Training page only runs with an EDA report the
\* Profiler produced earlier in the session: a session that holds
\* dataset_quality holds eda_report
C22_QualityAfterEda ==
    "dataset_quality" \in session.keys => "eda_report" \in session.keys

\* C23: a Training page run in which train_all_models selected a best model
\* goes on through the learnability assessment to save_best_model and
\* save_training_summary: when the assessment of the run is stored, the
\* model and the summary are written
C23_ExportReached ==
    (page_run.page = "Training" /\ "dataset_quality" \in session.keys
       /\ page_run.outcome \notin {"limit", "ValueError", "Exception", "stopped"})
    => (files.model.written /\ files.summary.written)

\* C24: a session that is not admin, on the free plan, makes at most
\* llm_calls_per_session calls to Groq
C24_LlmCallsLimited ==
    (~account.is_admin /\ GetCurrentPlan(account) = "free")
    => net.calls <= PlanLimits("free").llm_calls

\* C25: in a session that is not admin the counters uploads and
\* pipeline_runs never exceed the limits of the current plan
C25_UsageWithinLimits ==
    ~account.is_admin
    => /\ account.usage.uploads <= GetPlanLimits(account).uploads
       /\ account.usage.pipeline_runs <= GetPlanLimits(account).pipeline_runs

\* a further upload was refused with the uploads counter at the limit, and a
\* training run was counted
C25_Witness ==
    /\ ~account.is_admin
    /\ account.usage.uploads = UploadsPerSession
    /\ account.usage.pipeline_runs > 0
    /\ page_run.page = "Load Data"
    /\ page_run.outcome = "limit"

LoadedEntries(ss) ==
    << ss.keys \cap {"raw_df", "df", "meta"}, ss.raw_df, ss.df, ss.meta >>

LoadChanges ==
    \/ account'.usage.uploads # account.usage.uploads
    \/ LoadedEntries(session') # LoadedEntries(session)

\* C26: the uploads counter and the session entries raw_df, df and meta
\* change only in a Load Data run whose load() returned a frame within
\* max_rows; a run whose load() failed or returned too many rows leaves them
C26_FailedLoadKeeps ==
    [][ /\ LoadChanges =>
            /\ page_run'.page = "Load Data"
            /\ loader'.pc = "returned"
            /\ loader'.meta.rows <= GetPlanLimits(account).max_rows
            /\ session'.df = loader'.df
            /\ session'.raw_df = loader'.df
            /\ session'.meta = loader'.meta
            /\ {"raw_df", "df", "meta"} \subseteq session'.keys
        /\ ( /\ page_run'.page = "Load Data"
             /\ page_run'.n # page_run.n
             /\ loader' # loader
             /\ \/ loader'.pc = "raised"
                \/ loader'.meta.rows > GetPlanLimits(account).max_rows )
           => ~LoadChanges ]_vars

\* after a load that stored its frame, a file of too many rows was loaded
\* and the session still holds the earlier frame
C26_Witness ==
    /\ page_run.page = "Load Data"
    /\ loader.pc = "returned"
    /\ loader.meta.rows > GetPlanLimits(account).max_rows
    /\ "df" \in session.keys
    /\ session.meta.rows <= GetPlanLimits(account).max_rows
    /\ account.usage.uploads = 1

\* C27: a session that holds cleaned_df holds the result of cleaning its df
\* under its schema, and its schema is the one detected on its df
C27_ArtifactsCurrent ==
    "cleaned_df" \in session.keys
    => /\ session.schema = DetectSchema(session.df, session.schema.target)
       /\ CleanRuns[session.df][session.schema].error = "none"
       /\ session.cleaned_df = CleanRuns[session.df][session.schema].df

\* C30: a PDF built by the Final Report page shows the training summary of
\* the Training page, held in the session under training_summary
C30_SummaryInReport ==
    pdf.built => /\ "training_summary" \in session.keys
                 /\ pdf.best_model # "None"

====
